---- MODULE Spec2Model ----
(***************************************************************************)
(* The streaming-response pipeline of the chat client and its edge         *)
(* function: the client stream reader and round state machine of           *)
(* src/src/hooks/useChat.ts, the input form of ChatInput                   *)
(* (src/unnamed/part_000) and the reframing server of                      *)
(* src/supabase/functions/chat/index.ts.                                   *)
(*                                                                         *)
(* Text is a sequence of one-character strings, so that a stream can be    *)
(* cut between any two characters.                                         *)
(***************************************************************************)
EXTENDS Integers, Sequences, FiniteSets, TLC

(***************************************************************************)
(* Text primitives (JavaScript String methods used by the code).           *)
(***************************************************************************)
NL == "\n"
CR == "\r"
SP == " "
TAB == "\t"
QUOTE == "\""
BSL == "\\"

\* the characters \s and String.prototype.trim treat as white space
IsSpace(c) == c \in {SP, NL, CR, TAB}

\* the element of a one-element set; { F(v) : v \in { e } } names the value
\* of e once, so that F does not compute it again at every use
The(S) == CHOOSE x \in S : TRUE

\* the least element of a non-empty set of integers
Min(S) == CHOOSE x \in S : \A y \in S : x <= y

RECURSIVE Concat(_)
\* Array.prototype.join("") of a sequence of texts (split in halves, so that
\* the evaluation nests only logarithmically deep)
Concat(ss) ==
  IF Len(ss) = 0 THEN <<>>
  ELSE IF Len(ss) = 1 THEN ss[1]
  ELSE LET h == Len(ss) \div 2
       IN Concat(SubSeq(ss, 1, h)) \o Concat(SubSeq(ss, h + 1, Len(ss)))

RECURSIVE JoinWith(_, _)
\* Array.prototype.join(sep)
JoinWith(ss, sep) ==
  IF ss = <<>> THEN <<>>
  ELSE IF Len(ss) = 1 THEN ss[1]
  ELSE ss[1] \o sep \o JoinWith(Tail(ss), sep)

RECURSIVE TrimStart(_)
TrimStart(s) ==
  IF s # <<>> /\ IsSpace(Head(s)) THEN TrimStart(Tail(s)) ELSE s

RECURSIVE TrimEnd(_)
TrimEnd(s) ==
  IF s # <<>> /\ IsSpace(s[Len(s)]) THEN TrimEnd(SubSeq(s, 1, Len(s) - 1)) ELSE s

\* String.prototype.trim
Trim(s) == TrimEnd(TrimStart(s))

\* String.prototype.startsWith
StartsWith(s, p) == Len(s) >= Len(p) /\ SubSeq(s, 1, Len(p)) = p

\* s.substring(i - 1): the text from position i (1-based) to the end
From(s, i) == SubSeq(s, i, Len(s))

At(s, i) == IF i >= 1 /\ i <= Len(s) THEN s[i] ELSE ""

\* length of the match of /\r?\n/ that starts at position i, 0 when none
LineSepAt(s, i) ==
  IF At(s, i) = CR /\ At(s, i + 1) = NL THEN 2
  ELSE IF At(s, i) = NL THEN 1
  ELSE 0

\* length of the match of /\r?\n\r?\n/ that starts at position i, 0 when none
EventSepAt(s, i) ==
  LET a == LineSepAt(s, i)
      b == IF a = 0 THEN 0 ELSE LineSepAt(s, i + a)
  IN IF a = 0 \/ b = 0 THEN 0 ELSE a + b

\* length of the match of the regex named kind that starts at position i
SepAt(s, i, kind) == IF kind = "line" THEN LineSepAt(s, i) ELSE EventSepAt(s, i)

RECURSIVE SplitFrom(_, _, _)
\* String.prototype.split(regex) for a regex that never matches the empty
\* text: the pieces of s from position p on, cut at the leftmost matches;
\* kind names the regex ("line" for /\r?\n/, "event" for /\r?\n\r?\n/)
SplitFrom(s, p, kind) ==
  LET hits == { q \in p..Len(s) : SepAt(s, q, kind) > 0 }
  IN IF hits = {} THEN << SubSeq(s, p, Len(s)) >>
     ELSE LET q == Min(hits)
          IN << SubSeq(s, p, q - 1) >> \o SplitFrom(s, q + SepAt(s, q, kind), kind)

\* buffer.split(/\r?\n/)
SplitLines(s) == SplitFrom(s, 1, "line")

\* buffer.split(/\r?\n\r?\n/)
SplitEvents(s) == SplitFrom(s, 1, "event")

DataPrefix == << "d", "a", "t", "a", ":" >>
DoneText == << "[", "D", "O", "N", "E", "]" >>

(***************************************************************************)
(* JSON values.  A value is a record [t, s, a]: t is the JavaScript type    *)
(* tag, s the text of a string, number or boolean, a the elements of an     *)
(* array or the members [k, v] of an object, in insertion order.            *)
(***************************************************************************)
Undefined == [t |-> "undef", s |-> <<>>, a |-> <<>>]
Null == [t |-> "null", s |-> <<>>, a |-> <<>>]
Str(s) == [t |-> "str", s |-> s, a |-> <<>>]
Num(s) == [t |-> "num", s |-> s, a |-> <<>>]
Bool(b) ==
  [t |-> "bool",
   s |-> IF b THEN << "t", "r", "u", "e" >> ELSE << "f", "a", "l", "s", "e" >>,
   a |-> <<>>]
Arr(a) == [t |-> "arr", s |-> <<>>, a |-> a]
Obj(m) == [t |-> "obj", s |-> <<>>, a |-> m]

IsNullish(v) == v.t \in {"undef", "null"}
IsString(v) == v.t = "str"
IsArray(v) == v.t = "arr"

\* ToBoolean
Truthy(v) ==
  CASE v.t \in {"undef", "null"} -> FALSE
    [] v.t = "bool" -> v.s = << "t", "r", "u", "e" >>
    [] v.t = "num" -> v.s # << "0" >>
    [] v.t = "str" -> v.s # <<>>
    [] OTHER -> TRUE

RECURSIVE Lookup(_, _)
Lookup(m, k) ==
  IF m = <<>> THEN Undefined
  ELSE IF m[1].k = k THEN m[1].v
  ELSE Lookup(Tail(m), k)

\* v.k for a value that is not null or undefined (none of the keys the code
\* reads is a built-in property of a string, number, boolean or array)
Get(v, k) == IF v.t = "obj" THEN Lookup(v.a, k) ELSE Undefined

\* v?.k
OptGet(v, k) == IF IsNullish(v) THEN Undefined ELSE Get(v, k)

RECURSIVE JsString(_)
\* String(v); Array.prototype.join turns null and undefined elements into ""
JsString(v) ==
  CASE v.t \in {"str", "num", "bool"} -> v.s
    [] v.t = "null" -> << "n", "u", "l", "l" >>
    [] v.t = "undef" -> << "u", "n", "d", "e", "f", "i", "n", "e", "d" >>
    [] v.t = "arr" ->
         JoinWith([i \in 1..Len(v.a) |->
                     IF IsNullish(v.a[i]) THEN <<>> ELSE JsString(v.a[i])],
                  << "," >>)
    [] OTHER ->
         << "[", "o", "b", "j", "e", "c", "t", " ",
            "O", "b", "j", "e", "c", "t", "]" >>

IsDigit(c) == c \in {"0", "1", "2", "3", "4", "5", "6", "7", "8", "9"}

RECURSIVE SkipWs(_, _)
SkipWs(s, i) == IF IsSpace(At(s, i)) THEN SkipWs(s, i + 1) ELSE i

RECURSIVE DigitsEnd(_, _)
DigitsEnd(s, i) == IF IsDigit(At(s, i)) THEN DigitsEnd(s, i + 1) ELSE i

ParseFail == [ok |-> FALSE, v |-> Undefined, i |-> 0]

RECURSIVE ParseChars(_, _, _)
\* the characters of a JSON string after its opening quote, from position i;
\* acc is the text decoded so far.  The scan goes from one quote, backslash
\* or control character to the next.
ParseChars(s, i, acc) ==
  LET stops == { j \in i..Len(s) : s[j] \in {QUOTE, BSL, NL, CR, TAB} }
  IN IF stops = {} THEN ParseFail
     ELSE LET j == Min(stops)
              c == s[j]
              e == At(s, j + 1)
              pre == acc \o SubSeq(s, i, j - 1)
          IN IF c = QUOTE THEN [ok |-> TRUE, v |-> Str(pre), i |-> j + 1]
             ELSE IF c # BSL THEN ParseFail
             ELSE IF e \in {QUOTE, BSL, "/"} THEN ParseChars(s, j + 2, Append(pre, e))
             ELSE IF e = "n" THEN ParseChars(s, j + 2, Append(pre, NL))
             ELSE IF e = "r" THEN ParseChars(s, j + 2, Append(pre, CR))
             ELSE IF e = "t" THEN ParseChars(s, j + 2, Append(pre, TAB))
             ELSE ParseFail

\* a JSON number: an integer literal (fractions and exponents are outside
\* the alphabet of the streams checked here)
ParseNumber(s, i) ==
  LET j == IF At(s, i) = "-" THEN i + 1 ELSE i
      k == DigitsEnd(s, j)
      txt == SubSeq(s, i, k - 1)
  IN IF k = j \/ (At(s, j) = "0" /\ k > j + 1) THEN ParseFail
     ELSE [ok |-> TRUE,
           v |-> Num(IF txt = << "-", "0" >> THEN << "0" >> ELSE txt),
           i |-> k]

ParseLiteral(s, i, word, v) ==
  IF i + Len(word) - 1 <= Len(s) /\ SubSeq(s, i, i + Len(word) - 1) = word
  THEN [ok |-> TRUE, v |-> v, i |-> i + Len(word)]
  ELSE ParseFail

RECURSIVE SetMember(_, _, _)
\* a repeated key keeps its first position and takes the last value
SetMember(m, k, v) ==
  IF m = <<>> THEN << [k |-> k, v |-> v] >>
  ELSE IF m[1].k = k THEN << [k |-> k, v |-> v] >> \o Tail(m)
  ELSE << m[1] >> \o SetMember(Tail(m), k, v)

RECURSIVE ParseValue(_, _)
RECURSIVE ParseElements(_, _, _)
RECURSIVE ParseMembers(_, _, _)

ParseValue(s, i) ==
  LET c == At(s, i)
  IN CASE c = "{" ->
            LET j == SkipWs(s, i + 1)
            IN IF At(s, j) = "}" THEN [ok |-> TRUE, v |-> Obj(<<>>), i |-> j + 1]
               ELSE ParseMembers(s, j, <<>>)
       [] c = "[" ->
            LET j == SkipWs(s, i + 1)
            IN IF At(s, j) = "]" THEN [ok |-> TRUE, v |-> Arr(<<>>), i |-> j + 1]
               ELSE ParseElements(s, j, <<>>)
       [] c = QUOTE -> ParseChars(s, i + 1, <<>>)
       [] c = "t" -> ParseLiteral(s, i, << "t", "r", "u", "e" >>, Bool(TRUE))
       [] c = "f" -> ParseLiteral(s, i, << "f", "a", "l", "s", "e" >>, Bool(FALSE))
       [] c = "n" -> ParseLiteral(s, i, << "n", "u", "l", "l" >>, Null)
       [] c = "-" \/ IsDigit(c) -> ParseNumber(s, i)
       [] OTHER -> ParseFail

ParseElements(s, i, acc) ==
  LET r == ParseValue(s, i)
      j == SkipWs(s, r.i)
  IN IF ~r.ok THEN ParseFail
     ELSE IF At(s, j) = "," THEN ParseElements(s, SkipWs(s, j + 1), Append(acc, r.v))
     ELSE IF At(s, j) = "]" THEN [ok |-> TRUE, v |-> Arr(Append(acc, r.v)), i |-> j + 1]
     ELSE ParseFail

ParseMembers(s, i, acc) ==
  LET key == IF At(s, i) = QUOTE THEN ParseChars(s, i + 1, <<>>) ELSE ParseFail
      c == SkipWs(s, key.i)
      r == IF key.ok /\ At(s, c) = ":" THEN ParseValue(s, SkipWs(s, c + 1)) ELSE ParseFail
      j == SkipWs(s, r.i)
  IN IF ~r.ok THEN ParseFail
     ELSE IF At(s, j) = "," THEN
       ParseMembers(s, SkipWs(s, j + 1), SetMember(acc, key.v.s, r.v))
     ELSE IF At(s, j) = "}" THEN
       [ok |-> TRUE, v |-> Obj(SetMember(acc, key.v.s, r.v)), i |-> j + 1]
     ELSE ParseFail

\* JSON.parse(text): ok is FALSE where JSON.parse throws a SyntaxError
JsonParse(s) ==
  LET r == ParseValue(s, SkipWs(s, 1))
  IN IF r.ok /\ SkipWs(s, r.i) = Len(s) + 1 THEN [ok |-> TRUE, v |-> r.v]
     ELSE [ok |-> FALSE, v |-> Undefined]

\* one character of a string as JSON.stringify writes it
EscapeChar(c) ==
  CASE c = QUOTE -> << BSL, QUOTE >>
    [] c = BSL -> << BSL, BSL >>
    [] c = NL -> << BSL, "n" >>
    [] c = CR -> << BSL, "r" >>
    [] c = TAB -> << BSL, "t" >>
    [] OTHER -> << c >>

\* the characters of a string as JSON.stringify writes them
Escape(s) == Concat([i \in 1..Len(s) |-> EscapeChar(s[i])])

RECURSIVE JsonStringify(_)
\* JSON.stringify(v) without indentation
JsonStringify(v) ==
  CASE v.t = "str" -> << QUOTE >> \o Escape(v.s) \o << QUOTE >>
    [] v.t \in {"num", "bool"} -> v.s
    [] v.t = "arr" ->
         << "[" >> \o JoinWith([i \in 1..Len(v.a) |-> JsonStringify(v.a[i])], << "," >>)
         \o << "]" >>
    [] v.t = "obj" ->
         << "{" >>
         \o JoinWith([i \in 1..Len(v.a) |->
                        << QUOTE >> \o Escape(v.a[i].k) \o << QUOTE, ":" >>
                        \o JsonStringify(v.a[i].v)],
                     << "," >>)
         \o << "}" >>
    [] OTHER -> << "n", "u", "l", "l" >>

(***************************************************************************)
(* The two text extractors.  A result of the client extractor is            *)
(* [thrown, s]: thrown is TRUE where the JavaScript throws a TypeError (a   *)
(* property read on null).                                                  *)
(***************************************************************************)
Ret(s) == [thrown |-> FALSE, s |-> s]
Thrown == [thrown |-> TRUE, s |-> <<>>]

kText == << "t", "e", "x", "t" >>
kDelta == << "d", "e", "l", "t", "a" >>
kContent == << "c", "o", "n", "t", "e", "n", "t" >>
kChoices == << "c", "h", "o", "i", "c", "e", "s" >>
kMessage == << "m", "e", "s", "s", "a", "g", "e" >>
kOutput == << "o", "u", "t", "p", "u", "t" >>
kCandidates == << "c", "a", "n", "d", "i", "d", "a", "t", "e", "s" >>
kParts == << "p", "a", "r", "t", "s" >>

RECURSIVE PartsJoin(_, _)
\* parts.map((p) => p.text ?? "").join(""), with p?.text when optional
PartsJoin(ps, optional) ==
  IF ps = <<>> THEN Ret(<<>>)
  ELSE LET p == ps[1]
           t == OptGet(p, kText)
           rest == PartsJoin(Tail(ps), optional)
       IN IF IsNullish(p) /\ ~optional THEN Thrown
          ELSE IF rest.thrown THEN Thrown
          ELSE Ret((IF IsNullish(t) THEN <<>> ELSE JsString(t)) \o rest.s)

RECURSIVE collectText(_)
RECURSIVE collectAll(_)
RECURSIVE collectChoices(_)

\* obj.map(collectText).join("")
collectAll(vs) ==
  IF vs = <<>> THEN Ret(<<>>)
  ELSE LET h == collectText(vs[1])
           rest == collectAll(Tail(vs))
       IN IF h.thrown \/ rest.thrown THEN Thrown ELSE Ret(h.s \o rest.s)

\* the loop over obj.choices: [thrown, hit, s], hit when an element returned
collectChoices(cs) ==
  IF cs = <<>> THEN [thrown |-> FALSE, hit |-> FALSE, s |-> <<>>]
  ELSE LET c == cs[1]
           d == Get(c, kDelta)
           m == Get(c, kMessage)
           t == Get(c, kText)
       IN IF IsNullish(c) THEN [thrown |-> TRUE, hit |-> FALSE, s |-> <<>>]
          ELSE IF Truthy(d) /\ IsString(Get(d, kContent)) THEN
            [thrown |-> FALSE, hit |-> TRUE, s |-> Get(d, kContent).s]
          ELSE IF Truthy(m) /\ Truthy(Get(m, kContent)) THEN
            LET r == collectText(Get(m, kContent))
            IN [thrown |-> r.thrown, hit |-> ~r.thrown, s |-> r.s]
          ELSE IF Truthy(t) THEN [thrown |-> FALSE, hit |-> TRUE, s |-> JsString(t)]
          ELSE collectChoices(Tail(cs))

\* collectText of the client
collectText(obj) ==
  CASE IsNullish(obj) -> Ret(<<>>)
    [] obj.t \in {"str", "num", "bool"} -> Ret(obj.s)
    [] obj.t = "arr" -> collectAll(obj.a)
    [] OTHER ->
         LET text == Get(obj, kText)
             delta == Get(obj, kDelta)
             choices == Get(obj, kChoices)
             output == Get(obj, kOutput)
             candidates == Get(obj, kCandidates)
             parts == Get(obj, kParts)
             ch == IF IsArray(choices) THEN collectChoices(choices.a)
                   ELSE [thrown |-> FALSE, hit |-> FALSE, s |-> <<>>]
         IN IF IsString(text) THEN Ret(text.s)
            ELSE IF Truthy(delta) /\ IsString(Get(delta, kContent)) THEN
              Ret(Get(delta, kContent).s)
            ELSE IF ch.thrown THEN Thrown
            ELSE IF ch.hit THEN Ret(ch.s)
            ELSE IF Truthy(output) /\ Truthy(Get(output, kContent)) THEN
              collectText(Get(output, kContent))
            ELSE IF IsArray(candidates) THEN collectAll(candidates.a)
            ELSE IF IsArray(parts) THEN PartsJoin(parts.a, FALSE)
            ELSE collectAll([i \in 1..Len(obj.a) |-> obj.a[i].v])

RECURSIVE extractText(_)
RECURSIVE extractAll(_)
RECURSIVE extractChoices(_)
RECURSIVE extractCandidates(_)

\* obj.map(extractText).join("")
extractAll(vs) ==
  IF vs = <<>> THEN <<>> ELSE extractText(vs[1]) \o extractAll(Tail(vs))

\* the loop over obj.choices of the server: the text it accumulates in out
extractChoices(cs) ==
  IF cs = <<>> THEN <<>>
  ELSE LET c == cs[1]
           dc == OptGet(OptGet(c, kDelta), kContent)
           mc == OptGet(OptGet(c, kMessage), kContent)
           t == OptGet(c, kText)
       IN (IF Truthy(dc) THEN JsString(dc)
           ELSE IF Truthy(mc) THEN extractText(mc)
           ELSE IF Truthy(t) THEN JsString(t)
           ELSE <<>>) \o extractChoices(Tail(cs))

\* the loop over obj.candidates of the server: [hit, s], hit when an
\* element returned
extractCandidates(cs) ==
  IF cs = <<>> THEN [hit |-> FALSE, s |-> <<>>]
  ELSE LET cand == cs[1]
           parts == OptGet(OptGet(cand, kContent), kParts)
           oc == OptGet(OptGet(cand, kOutput), kContent)
       IN IF IsArray(parts) THEN [hit |-> TRUE, s |-> PartsJoin(parts.a, TRUE).s]
          ELSE IF Truthy(oc) THEN [hit |-> TRUE, s |-> extractText(oc)]
          ELSE extractCandidates(Tail(cs))

\* extractText of the server
extractText(obj) ==
  CASE IsNullish(obj) -> <<>>
    [] obj.t \in {"str", "num", "bool"} -> obj.s
    [] obj.t = "arr" -> extractAll(obj.a)
    [] OTHER ->
         LET choices == Get(obj, kChoices)
             candidates == Get(obj, kCandidates)
             output == Get(obj, kOutput)
             content == Get(obj, kContent)
             parts == Get(obj, kParts)
             delta == Get(obj, kDelta)
             out == IF IsArray(choices) THEN extractChoices(choices.a) ELSE <<>>
             cand == IF IsArray(candidates) THEN extractCandidates(candidates.a)
                     ELSE [hit |-> FALSE, s |-> <<>>]
         IN IF out # <<>> THEN out
            ELSE IF cand.hit THEN cand.s
            ELSE IF Truthy(output) /\ Truthy(Get(output, kContent)) THEN
              extractText(Get(output, kContent))
            ELSE IF Truthy(content) /\ IsArray(content) THEN PartsJoin(content.a, TRUE).s
            ELSE IF Truthy(content) /\ IsString(content) THEN content.s
            ELSE IF IsArray(parts) THEN PartsJoin(parts.a, TRUE).s
            ELSE IF Truthy(delta) /\ IsString(Get(delta, kContent)) THEN
              Get(delta, kContent).s
            ELSE <<>>

(***************************************************************************)
(* The client reader of useChat.sendMessage: pure parts.                    *)
(***************************************************************************)
\* a replace that takes all the whitespace after the prefix: /^data:\s*/
StripDataGreedy(l) == TrimStart(From(l, Len(DataPrefix) + 1))

\* l.replace(/^data:\s?/, "") for a line that starts with data:
StripData(l) ==
  IF IsSpace(At(l, Len(DataPrefix) + 1)) THEN From(l, Len(DataPrefix) + 2)
  ELSE From(l, Len(DataPrefix) + 1)

RECURSIVE DataLines(_)
\* the trimmed lines that start with data:, prefix stripped
DataLines(ls) ==
  IF ls = <<>> THEN <<>>
  ELSE LET l == Trim(ls[1])
       IN (IF StartsWith(l, DataPrefix) THEN << StripData(l) >> ELSE <<>>)
          \o DataLines(Tail(ls))

\* dataLines.join("\n").trim()
JoinPayload(dataLines) == Trim(JoinWith(dataLines, << NL >>))

\* try { extracted = collectText(JSON.parse(dataStr)).trim() }
\* catch { extracted = dataStr }
Extracted(dataStr) ==
  The({ IF r.thrown THEN dataStr ELSE Trim(r.s) :
          r \in { IF p.ok THEN collectText(p.v) ELSE Thrown :
                    p \in { JsonParse(dataStr) } } })

\* the body of the loop over events for one event: delta is the text added
\* to assistantContent (<<>> when the loop continues without one), done
\* whether the event's payload is the sentinel
ProcessEvent(ev) ==
  The({ The({ LET skip == Trim(ev) = <<>> \/ dataLines = <<>>
              IN [delta |-> IF skip \/ dataStr = <<>> \/ dataStr = DoneText THEN <<>>
                            ELSE Extracted(dataStr),
                  done |-> ~skip /\ dataStr = DoneText] :
                dataStr \in { JoinPayload(dataLines) } }) :
          dataLines \in { DataLines(lines) : lines \in { SplitLines(ev) } } })

\* the text the final flush adds for the buffer left when the source ends
FlushDelta(buffer) ==
  The({ IF dataStr = <<>> \/ dataStr = DoneText THEN <<>> ELSE Extracted(dataStr) :
          dataStr \in { Trim(buffer) } })

\* the reader's own state: buffer, the deltas applied so far (in order),
\* whether a [DONE] event has been processed, how many deltas were
\* applied after it and how many times setMessages was called
ReaderInit ==
  [buffer |-> <<>>, deltas |-> <<>>, sawDone |-> FALSE, afterDone |-> 0, updates |-> 0]

\* a loop body that calls setMessages for every event, with or without text
AfterEventAlwaysUpdates(st, e) ==
  [st EXCEPT !.deltas = IF e.delta = <<>> THEN @ ELSE Append(@, e.delta),
             !.sawDone = @ \/ e.done,
             !.afterDone = IF st.sawDone /\ e.delta # <<>> THEN @ + 1 ELSE @,
             !.updates = @ + 1]

\* the reader's state after one event with outcome e
AfterEvent(st, e) ==
  [st EXCEPT !.deltas = IF e.delta = <<>> THEN @ ELSE Append(@, e.delta),
             !.sawDone = @ \/ e.done,
             !.afterDone = IF st.sawDone /\ e.delta # <<>> THEN @ + 1 ELSE @,
             !.updates = IF e.delta = <<>> THEN @ ELSE @ + 1]

RECURSIVE RunEvents(_, _)
\* for (const ev of events) { ... }
RunEvents(evs, st) ==
  IF evs = <<>> THEN st
  ELSE RunEvents(Tail(evs), The({ AfterEvent(st, e) : e \in { ProcessEvent(evs[1]) } }))

\* a loop iteration that splits the chunk alone, forgetting the text carried
\* over from the chunks before it
RunChunkNoCarry(st, chunk) ==
  The({ RunEvents(SubSeq(events, 1, Len(events) - 1),
                  [st EXCEPT !.buffer = events[Len(events)]]) :
          events \in { SplitEvents(chunk) } })

\* a loop iteration that leaves the resolved events in the buffer
RunChunkNoPop(st, chunk) ==
  The({ RunEvents(SubSeq(events, 1, Len(events) - 1),
                  [st EXCEPT !.buffer = st.buffer \o chunk]) :
          events \in { SplitEvents(st.buffer \o chunk) } })

\* one iteration of the read loop for a decoded chunk
RunChunk(st, chunk) ==
  The({ RunEvents(SubSeq(events, 1, Len(events) - 1),
                  [st EXCEPT !.buffer = events[Len(events)]]) :
          events \in { SplitEvents(st.buffer \o chunk) } })

\* the flush after the loop
RunFlush(st) ==
  The({ AfterEvent(st, [delta |-> d, done |-> FALSE]) : d \in { FlushDelta(st.buffer) } })

\* the whole stream delivered in one chunk, then end of stream
ReadWhole(text) == The({ RunFlush(st) : st \in { RunChunk(ReaderInit, text) } })

\* the wire contract: {"choices":[{"delta":{"content": p}}]}
Payload(p) ==
  Obj(<< [k |-> kChoices,
          v |-> Arr(<< Obj(<< [k |-> kDelta,
                               v |-> Obj(<< [k |-> kContent, v |-> Str(p)] >>)] >>) >>)] >>)

\* an event encoding that ends the event with one line break only
CanonicalEventOneBreak(p) == DataPrefix \o << SP >> \o JsonStringify(Payload(p)) \o << NL >>

\* `data: ${JSON.stringify(payload)}\n\n`
CanonicalEvent(p) == DataPrefix \o << SP >> \o JsonStringify(Payload(p)) \o << NL, NL >>

\* `data: [DONE]\n\n`
DoneEvent == DataPrefix \o << SP >> \o DoneText \o << NL, NL >>

(***************************************************************************)
(* State.                                                                   *)
(***************************************************************************)
VARIABLES
  message,          \* ChatInput: text of the text area
  imageFile,        \* ChatInput: the pending image, NoFile when none
  csvFile,          \* ChatInput: the pending tabular file, NoFile when none
  csvUrl,           \* ChatInput: text of the URL input
  showCsvUrlInput,  \* ChatInput: whether the URL input is shown
  messages,         \* useChat: the transcript
  isLoading,        \* useChat: the loading flag
  rounds,           \* one record per call of sendMessage: its local variables
  wire,             \* per round: the response body not yet read and how it ends
  db,               \* the rows of the messages table, in insertion order
  conversationId,   \* ChatInterface: the selected conversation, 0 when none
  loads,            \* conversations whose history query is pending
  srv,              \* the chat function: one request being served
  call              \* a function of the code being applied: its argument and results

form == << message, imageFile, csvFile, csvUrl, showCsvUrlInput >>
client == << messages, isLoading, rounds, wire, db, conversationId, loads >>
vars == << message, imageFile, csvFile, csvUrl, showCsvUrlInput,
           messages, isLoading, rounds, wire, db, conversationId, loads, srv, call >>

\* bounds of the model
MaxRounds == 2
MaxConvs == 1
MaxEvents == 2

RoundIds == 1..MaxRounds
Convs == 1..MaxConvs

NoFile == [kind |-> "none", size |-> 0]
MB == 1024 * 1024

Hi == << "h", "i" >>
Hel == << "H", "e", "l" >>
Lo == << "l", "o" >>

\* crypto.randomUUID() of the messages a round creates: distinct per call
UserMsgId(r) == << "user", r >>
AsstMsgId(r) == << "assistant", r >>

NoRound ==
  [pc |-> "none", content |-> <<>>, imageFile |-> NoFile, csvFile |-> NoFile,
   csvUrl |-> <<>>, imageData |-> FALSE, csvData |-> FALSE, snapshot |-> <<>>,
   conv |-> 0, request |-> <<>>, assistantContent |-> <<>>,
   reader |-> ReaderInit, toasts |-> 0]

\* buf: the text of the body not yet read; end: how the body ends once buf
\* is read ("open": more may come); all: the text the body has carried
NoWire == [buf |-> <<>>, end |-> "closed", all |-> <<>>]

\* no function is being applied
NoCall == [fn |-> "none", arg |-> <<>>, out |-> <<>>]

\* a round whose control flow has not ended
Active(r) ==
  rounds[r].pc \notin {"none", "completed", "failed", "aborted"}

(***************************************************************************)
(* ChatInput.                                                               *)
(***************************************************************************)
\* <Textarea onChange={(e) => setMessage(e.target.value)}>
setMessage(v) ==
  /\ v # message
  /\ message' = v
  /\ UNCHANGED << imageFile, csvFile, csvUrl, showCsvUrlInput, client, srv, call >>

\* a handleImageSelect without the check of the size
handleImageSelectAnySize(file) ==
  /\ ~isLoading
  /\ imageFile' = IF file.kind # "image" THEN imageFile ELSE file
  /\ UNCHANGED << message, csvFile, csvUrl, showCsvUrlInput, client, srv, call >>

\* handleImageSelect, reached through the upload button (disabled while loading)
handleImageSelect(file) ==
  /\ ~isLoading
  /\ imageFile' = IF file.kind # "image" THEN imageFile
                  ELSE IF file.size > 5 * MB THEN imageFile
                  ELSE file
  /\ UNCHANGED << message, csvFile, csvUrl, showCsvUrlInput, client, srv, call >>

\* handleCsvSelect, reached through the upload button (disabled while loading)
handleCsvSelect(file) ==
  /\ ~isLoading
  /\ IF file.kind # "csv" \/ file.size > 10 * MB
     THEN UNCHANGED << csvFile, showCsvUrlInput >>
     ELSE csvFile' = file /\ showCsvUrlInput' = FALSE
  /\ UNCHANGED << message, imageFile, csvUrl, client, srv, call >>

\* the "CSV from URL" button (disabled while loading)
toggleCsvUrlInput ==
  /\ ~isLoading
  /\ showCsvUrlInput' = ~showCsvUrlInput
  /\ UNCHANGED << message, imageFile, csvFile, csvUrl, client, srv, call >>

\* <Input onChange={(e) => setCsvUrl(e.target.value)}>, rendered when shown
setCsvUrl(v) ==
  /\ showCsvUrlInput
  /\ v # csvUrl
  /\ csvUrl' = v
  /\ UNCHANGED << message, imageFile, csvFile, showCsvUrlInput, client, srv, call >>

\* an emptiness test that compares the text without trimming it
FormEmptyNoTrim ==
  /\ message = <<>>
  /\ imageFile = NoFile
  /\ csvFile = NoFile
  /\ csvUrl = <<>>

\* !message.trim() && !imageFile && !csvFile && !csvUrl.trim()
FormEmpty ==
  /\ Trim(message) = <<>>
  /\ imageFile = NoFile
  /\ csvFile = NoFile
  /\ Trim(csvUrl) = <<>>

\* the X button of the image preview
clearImage ==
  /\ imageFile # NoFile
  /\ imageFile' = NoFile
  /\ UNCHANGED << message, csvFile, csvUrl, showCsvUrlInput, client, srv, call >>

\* the X button of the file chip
clearCsv ==
  /\ csvFile # NoFile
  /\ csvFile' = NoFile
  /\ UNCHANGED << message, imageFile, csvUrl, showCsvUrlInput, client, srv, call >>

\* the X button of the URL input
closeCsvUrlInput ==
  /\ showCsvUrlInput
  /\ showCsvUrlInput' = FALSE
  /\ csvUrl' = <<>>
  /\ UNCHANGED << message, imageFile, csvFile, client, srv, call >>

(***************************************************************************)
(* useChat.sendMessage, one action per stretch between two awaits.          *)
(***************************************************************************)
\* new Date() when the message id was made, new Date(created_at) of its row
CreatedAt(id) == << "at", id >>

UserMessage(r, rd) ==
  [id |-> UserMsgId(r), role |-> "user", content |-> rd.content,
   timestamp |-> CreatedAt(UserMsgId(r)),
   imageUrl |-> rd.imageData, csvData |-> rd.csvData]

AssistantMessage(r) ==
  [id |-> AsstMsgId(r), role |-> "assistant", content |-> <<>>,
   timestamp |-> CreatedAt(AsstMsgId(r)),
   imageUrl |-> FALSE, csvData |-> FALSE]

\* messages.map(role, content) of the closure's transcript, then the new text
ApiMessages(rd) ==
  [i \in 1..Len(rd.snapshot) |->
     [role |-> rd.snapshot[i].role, content |-> rd.snapshot[i].content]]
  \o << [role |-> "user", content |-> rd.content] >>

\* the body of the request to the chat endpoint
ChatRequest(rd) ==
  << [messages |-> ApiMessages(rd), imageData |-> rd.imageData, csvData |-> rd.csvData] >>

\* an update that writes the content of a message only while it is empty
SetContentOnce(msgs, id, content) ==
  [i \in 1..Len(msgs) |->
     IF msgs[i].id = id /\ msgs[i].content = <<>>
     THEN [msgs[i] EXCEPT !.content = content] ELSE msgs[i]]

\* an update that builds the message anew, with the time of the update
SetContentRestamped(msgs, id, content) ==
  [i \in 1..Len(msgs) |->
     IF msgs[i].id = id
     THEN [msgs[i] EXCEPT !.content = content, !.timestamp = << "now" >>] ELSE msgs[i]]

\* setMessages((prev) => prev.map((msg) => msg.id === id ? {...msg, content} : msg))
SetContent(msgs, id, content) ==
  [i \in 1..Len(msgs) |->
     IF msgs[i].id = id THEN [msgs[i] EXCEPT !.content = content] ELSE msgs[i]]

Suspend(r, rd, pc) ==
  /\ rounds' = [rounds EXCEPT ![r] = [rd EXCEPT !.pc = pc]]
  /\ UNCHANGED messages

\* "Create user message" up to the next await
AfterAttachments(r, rd) ==
  /\ messages' = Append(messages, UserMessage(r, rd))
  /\ rounds' = [rounds EXCEPT ![r] =
                  IF rd.conv # 0 THEN [rd EXCEPT !.pc = "saveUser"]
                  ELSE [rd EXCEPT !.pc = "fetchChat", !.request = ChatRequest(rd)]]

\* "Handle CSV upload or URL"
AfterImage(r, rd) ==
  IF rd.csvFile # NoFile THEN Suspend(r, rd, "readCsv")
  ELSE IF rd.csvUrl # <<>> THEN Suspend(r, rd, "fetchCsv")
  ELSE AfterAttachments(r, rd)

\* the call of sendMessage up to its first await
sendMessage(r, content, image, csv, url) ==
  LET rd == [NoRound EXCEPT !.content = content, !.imageFile = image,
                            !.csvFile = csv, !.csvUrl = url,
                            !.snapshot = messages, !.conv = conversationId]
  IN /\ rounds[r].pc = "none"
     /\ \A q \in RoundIds : q < r => rounds[q].pc # "none"
     /\ isLoading' = TRUE
     /\ IF image # NoFile THEN Suspend(r, rd, "readImage") ELSE AfterImage(r, rd)
     /\ UNCHANGED << wire, db, conversationId, loads, srv, call >>

\* ChatInput.handleSubmit
handleSubmit ==
  IF FormEmpty THEN UNCHANGED vars
  ELSE /\ \E r \in RoundIds : sendMessage(r, message, imageFile, csvFile, csvUrl)
       /\ message' = <<>>
       /\ imageFile' = NoFile
       /\ csvFile' = NoFile
       /\ csvUrl' = <<>>
       /\ showCsvUrlInput' = FALSE

\* the send button: disabled={isLoading || (form empty)}
ClickSend ==
  /\ ~isLoading
  /\ ~FormEmpty
  /\ handleSubmit

\* onKeyDown of the text area: Enter without Shift calls handleSubmit
PressEnter == handleSubmit

\* reader.onloadend of the image
ImageRead(r) ==
  /\ rounds[r].pc = "readImage"
  /\ AfterImage(r, [rounds[r] EXCEPT !.imageData = TRUE])
  /\ UNCHANGED << form, isLoading, wire, db, conversationId, loads, srv, call >>

\* reader.onloadend of the tabular file
CsvRead(r) ==
  /\ rounds[r].pc = "readCsv"
  /\ AfterAttachments(r, [rounds[r] EXCEPT !.csvData = TRUE])
  /\ UNCHANGED << form, isLoading, wire, db, conversationId, loads, srv, call >>

\* a fetch of the csv url whose failure lets the round go on without the
\* csv data
CsvFetchedGoesOn(r, ok) ==
  /\ rounds[r].pc = "fetchCsv"
  /\ AfterAttachments(r, [rounds[r] EXCEPT !.csvData = ok])
  /\ UNCHANGED isLoading
  /\ UNCHANGED << form, wire, db, conversationId, loads, srv, call >>

\* fetch(csvUrl) and response.text(): ok, or the inner catch
CsvFetched(r, ok) ==
  /\ rounds[r].pc = "fetchCsv"
  /\ IF ok
     THEN /\ AfterAttachments(r, [rounds[r] EXCEPT !.csvData = TRUE])
          /\ UNCHANGED isLoading
     ELSE /\ rounds' = [rounds EXCEPT ![r].pc = "aborted", ![r].toasts = @ + 1]
          /\ isLoading' = FALSE
          /\ UNCHANGED messages
  /\ UNCHANGED << form, wire, db, conversationId, loads, srv, call >>

\* supabase insert of the user message resolved (ok) or failed
UserSaved(r, ok) ==
  LET rd == rounds[r]
      row == [conversation_id |-> rd.conv, role |-> "user", content |-> rd.content,
              image_url |-> rd.imageData, csv_data |-> rd.csvData,
              id |-> << "row", Len(db) + 1 >>]
  IN /\ rd.pc = "saveUser"
     /\ db' = IF ok THEN Append(db, row) ELSE db
     /\ rounds' = [rounds EXCEPT ![r].pc = "fetchChat", ![r].request = ChatRequest(rd)]
     /\ UNCHANGED << form, messages, isLoading, wire, conversationId, loads, srv, call >>

\* a catch block that also takes the messages of the round out of the
\* transcript
CatchRollback(r) ==
  /\ rounds' = [rounds EXCEPT ![r].pc = "failed", ![r].toasts = @ + 1]
  /\ isLoading' = FALSE
  /\ messages' = SelectSeq(messages, LAMBDA m : m.id \notin {UserMsgId(r), AsstMsgId(r)})

\* a catch block without setIsLoading(false)
CatchStillLoading(r) ==
  /\ rounds' = [rounds EXCEPT ![r].pc = "failed", ![r].toasts = @ + 1]
  /\ UNCHANGED << isLoading, messages >>

\* the catch block of sendMessage
Catch(r) ==
  /\ rounds' = [rounds EXCEPT ![r].pc = "failed", ![r].toasts = @ + 1]
  /\ isLoading' = FALSE
  /\ UNCHANGED messages

\* fetch of the chat endpoint settled.  resp.kind: "neterr" the fetch
\* rejected, "notok" a non-success status, "nobody" success without body,
\* "stream" success with body resp.body that ends as resp.end says
ChatResponse(r, resp) ==
  /\ rounds[r].pc = "fetchChat"
  /\ CASE resp.kind = "neterr" -> Catch(r) /\ UNCHANGED wire
       [] resp.kind = "notok" ->
            /\ rounds' = [rounds EXCEPT ![r].pc = "errorBody"]
            /\ UNCHANGED << messages, isLoading, wire >>
       [] resp.kind = "nobody" -> Catch(r) /\ UNCHANGED wire
       [] OTHER ->
            /\ messages' = Append(messages, AssistantMessage(r))
            /\ rounds' = [rounds EXCEPT ![r].pc = "reading"]
            /\ wire' = [wire EXCEPT ![r] = [buf |-> resp.body, end |-> resp.end,
                                            all |-> resp.body]]
            /\ UNCHANGED isLoading
  /\ UNCHANGED << form, db, conversationId, loads, srv, call >>

\* response.json() of an error response settled: throw into the catch block
ErrorBodyRead(r) ==
  /\ rounds[r].pc = "errorBody"
  /\ Catch(r)
  /\ UNCHANGED << form, wire, db, conversationId, loads, srv, call >>

\* reader.read() resolved with a chunk of n characters: one loop iteration
Read(r, n) ==
  /\ rounds[r].pc = "reading"
  /\ n \in 1..Len(wire[r].buf)
  /\ \E st \in { RunChunk(rounds[r].reader, SubSeq(wire[r].buf, 1, n)) } :
       LET rd == rounds[r]
           new == SubSeq(st.deltas, Len(rd.reader.deltas) + 1, Len(st.deltas))
           content == rd.assistantContent \o Concat(new)
       IN /\ wire' = [wire EXCEPT ![r].buf = From(@, n + 1)]
          /\ rounds' = [rounds EXCEPT ![r].reader = st, ![r].assistantContent = content]
          /\ messages' = IF new = <<>> THEN messages
                         ELSE SetContent(messages, AsstMsgId(r), content)
  /\ UNCHANGED << form, isLoading, db, conversationId, loads, srv, call >>

\* reader.read() resolved with done: the flush, then the assistant insert
\* or the end of the round
ReadDone(r) ==
  /\ rounds[r].pc = "reading"
  /\ wire[r].buf = <<>>
  /\ wire[r].end = "closed"
  /\ \E st \in { RunFlush(rounds[r].reader) } :
       LET rd == rounds[r]
           new == SubSeq(st.deltas, Len(rd.reader.deltas) + 1, Len(st.deltas))
           content == rd.assistantContent \o Concat(new)
           save == rd.conv # 0 /\ content # <<>>
       IN /\ rounds' = [rounds EXCEPT
                          ![r].reader = st, ![r].assistantContent = content,
                          ![r].pc = IF save THEN "saveAssistant" ELSE "completed"]
          /\ messages' = IF new = <<>> THEN messages
                         ELSE SetContent(messages, AsstMsgId(r), content)
          /\ isLoading' = IF save THEN isLoading ELSE FALSE
  /\ UNCHANGED << form, wire, db, conversationId, loads, srv, call >>

\* a rejected read that saves the content received so far before the
\* catch block
ReadErrorSavesPartial(r) ==
  /\ rounds[r].pc = "reading"
  /\ wire[r].end = "errored"
  /\ Catch(r)
  /\ db' = IF rounds[r].conv # 0 /\ rounds[r].assistantContent # <<>>
           THEN Append(db, [conversation_id |-> rounds[r].conv, role |-> "assistant",
                            content |-> rounds[r].assistantContent, image_url |-> FALSE,
                            csv_data |-> FALSE, id |-> AsstMsgId(r)])
           ELSE db
  /\ UNCHANGED << form, wire, conversationId, loads, srv, call >>

\* reader.read() rejected
ReadError(r) ==
  /\ rounds[r].pc = "reading"
  /\ wire[r].end = "errored"
  /\ Catch(r)
  /\ UNCHANGED << form, wire, db, conversationId, loads, srv, call >>

\* an insert of the assistant message whose failure is thrown into the
\* catch block
AssistantSavedThrows(r, ok) ==
  LET rd == rounds[r]
      row == [conversation_id |-> rd.conv, role |-> "assistant",
              content |-> rd.assistantContent, image_url |-> FALSE,
              csv_data |-> FALSE, id |-> AsstMsgId(r)]
  IN /\ rd.pc = "saveAssistant"
     /\ IF ok THEN /\ db' = Append(db, row)
                   /\ rounds' = [rounds EXCEPT ![r].pc = "completed"]
                   /\ isLoading' = FALSE
                   /\ UNCHANGED messages
        ELSE Catch(r) /\ UNCHANGED db
     /\ UNCHANGED << form, wire, conversationId, loads, srv, call >>

\* supabase insert of the assistant message resolved (ok) or failed
AssistantSaved(r, ok) ==
  LET rd == rounds[r]
      row == [conversation_id |-> rd.conv, role |-> "assistant",
              content |-> rd.assistantContent, image_url |-> FALSE,
              csv_data |-> FALSE, id |-> AsstMsgId(r)]
  IN /\ rd.pc = "saveAssistant"
     /\ db' = IF ok THEN Append(db, row) ELSE db
     /\ rounds' = [rounds EXCEPT ![r].pc = "completed"]
     /\ isLoading' = FALSE
     /\ UNCHANGED << form, messages, wire, conversationId, loads, srv, call >>

(***************************************************************************)
(* ChatInterface and useChat.loadConversationHistory.                       *)
(***************************************************************************)
\* handleSelectConversation: the effect on conversationId starts a load
handleSelectConversation(c) ==
  /\ c # conversationId
  /\ conversationId' = c
  /\ loads' = loads \cup {c}
  /\ UNCHANGED << form, messages, isLoading, rounds, wire, db, srv, call >>

RECURSIVE LoadedMessages(_, _)
\* data.map(...) of the rows of one conversation
LoadedMessages(rows, c) ==
  IF rows = <<>> THEN <<>>
  ELSE (IF rows[1].conversation_id = c
        THEN << [id |-> rows[1].id, role |-> rows[1].role, content |-> rows[1].content,
                 timestamp |-> CreatedAt(rows[1].id),
                 imageUrl |-> rows[1].image_url, csvData |-> rows[1].csv_data] >>
        ELSE <<>>) \o LoadedMessages(Tail(rows), c)

\* the history query settled: setMessages(loadedMessages), or the toast
loadConversationHistory(c, ok) ==
  /\ c \in loads
  /\ loads' = loads \ {c}
  /\ messages' = IF ok THEN LoadedMessages(db, c) ELSE messages
  /\ UNCHANGED << form, isLoading, rounds, wire, db, conversationId, srv, call >>

(***************************************************************************)
(* The client reader alone: a round that has just received its response,   *)
(* for every stream of StreamTexts cut into chunks in every way.           *)
(***************************************************************************)
\* `data: ${JSON.stringify(payload)}` without the blank line
CanonicalLine(p) == DataPrefix \o << SP >> \o JsonStringify(Payload(p))

\* event texts: plain text, the sentinel, a JSON payload over two data:
\* lines, a comment, a JSON object, a blank event
EventTexts ==
  { DataPrefix \o << SP >> \o Hi,
    DataPrefix \o << SP >> \o DoneText,
    DataPrefix \o << "[", "1", ",", NL >> \o DataPrefix \o << "2", "]" >>,
    << ":", "k" >>,
    DataPrefix \o << SP >> \o JsonStringify(Obj(<< [k |-> kText, v |-> Str(<< "T" >>)] >>)),
    << SP >> }

Separators == { << NL, NL >>, << CR, NL, CR, NL >> }

\* how a stream may end: a separator, nothing, or a single line break
Endings == { << NL, NL >>, <<>>, << NL >> }

RECURSIVE StreamTexts(_)
\* the streams of at most k events
StreamTexts(k) ==
  IF k = 1 THEN { e \o z : e \in EventTexts, z \in Endings }
  ELSE StreamTexts(k - 1)
       \cup { e \o z \o t : e \in EventTexts, z \in Separators, t \in StreamTexts(k - 1) }

\* streams of canonical events: the two-delta stream that ends with the
\* sentinel, a delta after the sentinel with \r\n line breaks and no final
\* blank line, a final sentinel without blank line, and one canonical event
\* without blank line
CanonicalStreams ==
  { CanonicalEvent(Hel) \o CanonicalEvent(Lo) \o DoneEvent,
    CanonicalLine(<< "X" >>),
    CanonicalLine(<< "X" >>) \o << CR, NL, CR, NL >> \o DataPrefix \o << SP >>
      \o DoneText \o << CR, NL, CR, NL >> \o CanonicalLine(<< "Y" >>),
    CanonicalEvent(<< "X" >>) \o DataPrefix \o << SP >> \o DoneText }

StreamingRound == [NoRound EXCEPT !.pc = "reading", !.content = Hi]

\* the response of the chat function: none yet, a JSON error body, or the
\* event stream
NoResp == [kind |-> "none", status |-> 0, error |-> <<>>]

\* the chat function serving one request: its place, the provider's status,
\* the provider's body not yet read and how it ends, the line buffer, the
\* content strings put into events so far, the response it returned, how
\* the upload of the image went, the image URL it settled on, the parts of
\* its request to the provider, and the document response.json() gave
srvIdle ==
  [pc |-> "idle", status |-> 0, up |-> <<>>, upEnd |-> "closed", buffer |-> <<>>,
   contents |-> <<>>, resp |-> NoResp, upload |-> "none", effectiveImageUrl |-> <<>>,
   parts |-> <<>>, json |-> Undefined]

InitReader ==
  /\ message = <<>>
  /\ imageFile = NoFile
  /\ csvFile = NoFile
  /\ csvUrl = <<>>
  /\ showCsvUrlInput = FALSE
  /\ messages = << UserMessage(1, StreamingRound), AssistantMessage(1) >>
  /\ isLoading = TRUE
  /\ rounds = [r \in RoundIds |-> IF r = 1 THEN StreamingRound ELSE NoRound]
  /\ \E t \in StreamTexts(MaxEvents) \cup CanonicalStreams, e \in {"closed", "errored"} :
       /\ e = "errored" => t \in CanonicalStreams
       /\ wire = [r \in RoundIds |->
                   IF r = 1 THEN [buf |-> t, end |-> e, all |-> t] ELSE NoWire]
  /\ db = <<>>
  /\ conversationId = 0
  /\ loads = {}
  /\ srv = srvIdle
  /\ call = NoCall

NextReader ==
  \/ \E n \in 1..Len(wire[1].buf) : Read(1, n)
  \/ ReadDone(1)
  \/ ReadError(1)

SpecReader == InitReader /\ [][NextReader]_vars

\* the reader on a source that may stay open: after the text of the body no
\* further chunk comes and read() settles with neither done nor an error
InitReaderOpen ==
  /\ message = <<>>
  /\ imageFile = NoFile
  /\ csvFile = NoFile
  /\ csvUrl = <<>>
  /\ showCsvUrlInput = FALSE
  /\ messages = << UserMessage(1, StreamingRound), AssistantMessage(1) >>
  /\ isLoading = TRUE
  /\ rounds = [r \in RoundIds |-> IF r = 1 THEN StreamingRound ELSE NoRound]
  /\ \E t \in CanonicalStreams, e \in {"closed", "errored", "open"} :
       wire = [r \in RoundIds |->
                 IF r = 1 THEN [buf |-> t, end |-> e, all |-> t] ELSE NoWire]
  /\ db = <<>>
  /\ conversationId = 0
  /\ loads = {}
  /\ srv = srvIdle
  /\ call = NoCall

\* the loop iteration as the source sees it: a chunk is taken off the body
Consumed ==
  /\ rounds[1].pc = "reading"
  /\ \E n \in 1..Len(wire[1].buf) : wire' = [wire EXCEPT ![1].buf = From(@, n + 1)]

\* a read() that has settled is followed by the loop body, by the flush or
\* by the catch block: the continuation of an await is run by the event
\* loop.  The steps of NextReader that take a chunk off the body are the
\* steps of Read.
SpecReaderOpen ==
  /\ InitReaderOpen
  /\ [][NextReader]_vars
  /\ WF_wire(Consumed) /\ WF_vars(ReadDone(1)) /\ WF_vars(ReadError(1))

(***************************************************************************)
(* The session: the form, the rounds it starts, the conversation selector. *)
(***************************************************************************)
\* what the user types into the text area and into the URL input
Texts == { <<>>, Hi }
Urls == { <<>>, << "u" >> }

\* response bodies of the chat endpoint: two deltas and the sentinel, and a
\* plain data: line without blank line
SessionBodies ==
  { CanonicalEvent(Hel) \o CanonicalEvent(Lo) \o DoneEvent, DataPrefix \o << SP >> \o Hi }

\* how the fetch of the chat endpoint may settle
Responses ==
  { [kind |-> k, body |-> <<>>, end |-> "closed"] : k \in {"neterr", "notok", "nobody"} }
  \cup { [kind |-> "stream", body |-> b, end |-> e] :
           b \in SessionBodies, e \in {"closed", "errored"} }

\* the sizes of the chunks a body is read in: all that is there, or
\* ChunkSize characters
ChunkSize == 50
Cuts(buf) == { n \in 1..Len(buf) : n = Len(buf) \/ n = ChunkSize }

Init ==
  /\ message = <<>>
  /\ imageFile = NoFile
  /\ csvFile = NoFile
  /\ csvUrl = <<>>
  /\ showCsvUrlInput = FALSE
  /\ messages = <<>>
  /\ isLoading = FALSE
  /\ rounds = [r \in RoundIds |-> NoRound]
  /\ wire = [r \in RoundIds |-> NoWire]
  /\ db = <<>>
  /\ conversationId = 0
  /\ loads = {}
  /\ srv = srvIdle
  /\ call = NoCall

Next ==
  \/ \E v \in Texts : setMessage(v)
  \/ ClickSend
  \/ PressEnter
  \/ \E r \in RoundIds :
       \/ \E ok \in BOOLEAN : UserSaved(r, ok)
       \/ \E resp \in Responses : ChatResponse(r, resp)
       \/ ErrorBodyRead(r)
       \/ \E n \in Cuts(wire[r].buf) : Read(r, n)
       \/ ReadDone(r)
       \/ ReadError(r)
       \/ \E ok \in BOOLEAN : AssistantSaved(r, ok)
  \/ \E c \in Convs : handleSelectConversation(c)
  \/ \E c \in Convs, ok \in BOOLEAN : loadConversationHistory(c, ok)

Spec == Init /\ [][Next]_vars

(***************************************************************************)
(* The rounds from the submit to their end, with every awaited operation:   *)
(* the file reads, the fetch of the csv url, the inserts, the fetch of the   *)
(* chat endpoint, the reads of the body.  The form starts filled in.         *)
(***************************************************************************)
InitRound ==
  /\ message \in { <<>>, Hi }
  /\ imageFile \in { NoFile, [kind |-> "image", size |-> MB] }
  /\ csvFile \in { NoFile, [kind |-> "csv", size |-> MB] }
  /\ csvUrl \in { <<>>, << "u" >> }
  /\ showCsvUrlInput = (csvUrl # <<>> /\ csvFile = NoFile)
  /\ messages = <<>>
  /\ isLoading = FALSE
  /\ rounds = [r \in RoundIds |-> NoRound]
  /\ wire = [r \in RoundIds |-> NoWire]
  /\ db = <<>>
  /\ conversationId \in {0} \cup Convs
  /\ loads = {}
  /\ srv = srvIdle
  /\ call = NoCall

\* the steps of round r: each is the continuation of an await that settled
RoundStep(r) ==
  \/ ImageRead(r)
  \/ CsvRead(r)
  \/ \E ok \in BOOLEAN : CsvFetched(r, ok)
  \/ \E ok \in BOOLEAN : UserSaved(r, ok)
  \/ \E resp \in Responses : ChatResponse(r, resp)
  \/ ErrorBodyRead(r)
  \/ \E n \in Cuts(wire[r].buf) : Read(r, n)
  \/ ReadDone(r)
  \/ ReadError(r)
  \/ \E ok \in BOOLEAN : AssistantSaved(r, ok)

NextRound ==
  \/ ClickSend
  \/ PressEnter
  \/ \E r \in RoundIds : RoundStep(r)

\* the read of round r as the body sees it: a chunk is taken off
Taken(r) ==
  /\ rounds[r].pc = "reading"
  /\ \E n \in Cuts(wire[r].buf) : wire' = [wire EXCEPT ![r].buf = From(@, n + 1)]

\* every awaited operation settles, and the continuation of an await that
\* has settled is run.  The steps of NextRound that take a chunk off the
\* body of round r are the steps of Read(r, n).
RoundFairness(r) ==
  /\ WF_vars(ImageRead(r))
  /\ WF_vars(CsvRead(r))
  /\ WF_vars(\E ok \in BOOLEAN : CsvFetched(r, ok))
  /\ WF_vars(\E ok \in BOOLEAN : UserSaved(r, ok))
  /\ WF_vars(\E resp \in Responses : ChatResponse(r, resp))
  /\ WF_vars(ErrorBodyRead(r))
  /\ WF_wire(Taken(r))
  /\ WF_vars(ReadDone(r))
  /\ WF_vars(ReadError(r))
  /\ WF_vars(\E ok \in BOOLEAN : AssistantSaved(r, ok))

SpecRound == InitRound /\ [][NextRound]_vars /\ \A r \in RoundIds : RoundFairness(r)

(***************************************************************************)
(* The form alone: every kind of input, a submit by button or by key, and  *)
(* the attachment stage of the rounds it starts.                           *)
(***************************************************************************)
\* what the user types: nothing, white space, text
FormTexts == { <<>>, << SP >>, Hi }
FormUrls == { <<>>, << SP >>, << "u" >> }

\* the files the user may pick: a good one, one over the size limit, one of
\* the wrong type
ImageFiles == { [kind |-> "image", size |-> MB], [kind |-> "image", size |-> 5 * MB + 1],
                [kind |-> "text", size |-> MB] }
CsvFiles == { [kind |-> "csv", size |-> MB], [kind |-> "csv", size |-> 10 * MB + 1],
              [kind |-> "text", size |-> MB] }

NextForm ==
  \/ \E v \in FormTexts : setMessage(v)
  \/ \E f \in ImageFiles : handleImageSelect(f)
  \/ \E f \in CsvFiles : handleCsvSelect(f)
  \/ toggleCsvUrlInput
  \/ \E v \in FormUrls : setCsvUrl(v)
  \/ clearImage
  \/ clearCsv
  \/ closeCsvUrlInput
  \/ ClickSend
  \/ PressEnter
  \/ \E r \in RoundIds :
       \/ ImageRead(r)
       \/ CsvRead(r)
       \/ \E ok \in BOOLEAN : CsvFetched(r, ok)

SpecForm == Init /\ [][NextForm]_vars

(***************************************************************************)
(* The chat function (index.ts): sanitizeText and the reframing of the     *)
(* provider's response into canonical events.                              *)
(***************************************************************************)
UpperCase ==
  << "A", "B", "C", "D", "E", "F", "G", "H", "I", "J", "K", "L", "M",
     "N", "O", "P", "Q", "R", "S", "T", "U", "V", "W", "X", "Y", "Z" >>
LowerCase ==
  << "a", "b", "c", "d", "e", "f", "g", "h", "i", "j", "k", "l", "m",
     "n", "o", "p", "q", "r", "s", "t", "u", "v", "w", "x", "y", "z" >>

\* the character in lower case, for the regular expressions with flag i
Lower(c) ==
  IF \E i \in 1..26 : UpperCase[i] = c
  THEN LowerCase[CHOOSE i \in 1..26 : UpperCase[i] = c]
  ELSE c

IsLetter(c) == \E i \in 1..26 : UpperCase[i] = c \/ LowerCase[i] = c
\* \w
IsWordChar(c) == IsLetter(c) \/ IsDigit(c) \/ c = "_"
\* [_A-Za-z0-9-]
IsIdChar(c) == IsWordChar(c) \/ c = "-"

\* the text has word (in lower case) at position i, whatever the case
HasWordAt(s, i, word) ==
  /\ i >= 1
  /\ i + Len(word) - 1 <= Len(s)
  /\ \A k \in 1..Len(word) : Lower(s[i + k - 1]) = word[k]

\* the text without the characters at the positions of the set
Without(s, removed) ==
  Concat([p \in 1..Len(s) |-> IF p \in removed THEN <<>> ELSE << s[p] >>])

\* s.replace(/model[^ \n\r]*/gi, "")
RemoveModel(s) ==
  LET word == << "m", "o", "d", "e", "l" >>
      rest(c) == c \notin {SP, NL, CR}
  IN Without(s, { p \in 1..Len(s) :
                    \E i \in 1..p :
                      /\ HasWordAt(s, i, word)
                      /\ \A q \in (i + Len(word))..p : rest(s[q]) })

\* s.replace(/TEXT\d+/gi, "")
RemoveText(s) ==
  LET word == << "t", "e", "x", "t" >>
  IN Without(s, { p \in 1..Len(s) :
                    \E i \in 1..p :
                      /\ HasWordAt(s, i, word)
                      /\ IsDigit(At(s, i + Len(word)))
                      /\ \A q \in (i + Len(word))..p : IsDigit(s[q]) })

\* a replacement that is left out
NoReplace(s) == s

\* s.replace(/\bSTOP\b/gi, "")
RemoveStop(s) ==
  LET word == << "s", "t", "o", "p" >>
      bounded(i) == /\ HasWordAt(s, i, word)
                    /\ ~IsWordChar(At(s, i - 1))
                    /\ ~IsWordChar(At(s, i + Len(word)))
  IN Without(s, { p \in 1..Len(s) : \E i \in (p - Len(word) + 1)..p : bounded(i) })

\* the least length of a run that /[_A-Za-z0-9-]{16,}/ matches
IdRunMin == 16

\* s.replace(/[_A-Za-z0-9-]{16,}/g, "")
RemoveIds(s) ==
  LET first(p) == Min({ i \in 1..p : \A q \in i..p : IsIdChar(s[q]) })
      last(p) == Min({ j \in p..Len(s) : j = Len(s) \/ ~IsIdChar(s[j + 1]) })
  IN Without(s, { p \in 1..Len(s) :
                    IsIdChar(s[p]) /\ last(p) - first(p) + 1 >= IdRunMin })

\* s.replace(/\s{2,}/g, " ")
CollapseSpace(s) ==
  Concat([p \in 1..Len(s) |->
            IF ~IsSpace(s[p]) THEN << s[p] >>
            ELSE IF IsSpace(At(s, p - 1)) THEN <<>>
            ELSE IF IsSpace(At(s, p + 1)) THEN << SP >>
            ELSE << s[p] >>])

\* sanitizeText
sanitizeText(s) ==
  IF s = <<>> THEN <<>>
  ELSE The({ Trim(f) :
               f \in { CollapseSpace(e) :
                 e \in { RemoveIds(d) :
                   d \in { RemoveStop(c) :
                     c \in { RemoveText(b) :
                       b \in { RemoveModel(s) } } } } } })

\* a line loop that drops the line when JSON.parse throws
ReframedOrDropped(jsonText, fallback) ==
  The({ IF p.ok THEN sanitizeText(The({ Trim(e) : e \in { extractText(p.v) } }))
        ELSE <<>> :
          p \in { JsonParse(jsonText) } })

\* extractText(parsed).trim(), then sanitizeText; sanitizeText of the
\* fallback text when JSON.parse throws
Reframed(jsonText, fallback) ==
  The({ sanitizeText(t) :
          t \in { IF p.ok THEN The({ Trim(e) : e \in { extractText(p.v) } })
                  ELSE fallback :
                    p \in { JsonParse(jsonText) } } })

RECURSIVE LineContentsKeepEmpty(_)
\* a line loop without `if (!extracted) continue`
LineContentsKeepEmpty(lines) ==
  IF lines = <<>> THEN <<>>
  ELSE The({ IF line = <<>> THEN <<>> ELSE << Reframed(line, line) >> :
               line \in { Trim(lines[1]) } })
       \o LineContentsKeepEmpty(Tail(lines))

RECURSIVE LineContents(_)
\* for (const raw of lines): the contents of the events enqueued
LineContents(lines) ==
  IF lines = <<>> THEN <<>>
  ELSE The({ IF extracted = <<>> THEN <<>> ELSE << extracted >> :
               extracted \in { IF line = <<>> THEN <<>> ELSE Reframed(line, line) :
                                 line \in { Trim(lines[1]) } } })
       \o LineContents(Tail(lines))

\* if (buffer.trim()) { ... }: the content of the event the flush enqueues
FlushContents(buffer) ==
  IF Trim(buffer) = <<>> THEN <<>>
  ELSE The({ IF extracted = <<>> THEN <<>> ELSE << extracted >> :
               extracted \in { Reframed(buffer, t) : t \in { Trim(buffer) } } })

RECURSIVE ItemPieces(_)
\* const t = extractText(item).trim(); if (t) pieces.push(sanitizeText(t));
ItemPieces(items) ==
  IF items = <<>> THEN <<>>
  ELSE The({ IF t = <<>> THEN <<>> ELSE << sanitizeText(t) >> :
               t \in { Trim(e) : e \in { extractText(items[1]) } } })
       \o ItemPieces(Tail(items))

\* the pieces of a whole JSON document
Pieces(json) == IF IsArray(json) THEN ItemPieces(json.a) ELSE ItemPieces(<< json >>)

\* the text of the events that carry the contents
Events(contents) == Concat([i \in 1..Len(contents) |-> CanonicalEvent(contents[i])])

\* controller.enqueue of a text onto the body of the response
Enqueue(w, text) == [w EXCEPT !.buf = @ \o text, !.all = @ \o text]

RateLimitError == << "Rate limit exceeded. Please try again later." >>
PaymentError == << "Payment required. Please add credits to your workspace." >>
\* `AI gateway error: ${response.status}`
GatewayError(status) == << "AI gateway error: ", status >>
\* error.message of a rejected fetch or body read
TransportError == << "error.message" >>

\* the catch of the handler: status 500 with the error's message
ErrorResponse(status, error) == [kind |-> "json", status |-> status, error |-> error]

\* contentType.includes("application/json") &&
\*   (!upstream || response.headers.get("transfer-encoding") === null)
WholeDocument(u) == u.json /\ (~u.hasBody \/ ~u.chunked)

\* the data URL the client reads from the image file, and the public URL
\* of the object uploadImageToSupabase has stored
DataUrl == << "d", "a", "t", "a", ":", "i", "m", "a", "g", "e" >>
PublicUrl == << "h", "t", "t", "p", "s", ":", "i", "m", "a", "g", "e" >>
ConfigError == << "GEMINI_API_KEY is not configured" >>
SystemPrompt == << "You are a helpful AI assistant." >>
CsvContext == << "I have access to CSV data." >>

\* the request the function serves
ServedRequest == rounds[1].request[1]

\* imageData of the request body: the data URL, or nothing
RequestImage == IF ServedRequest.imageData THEN DataUrl ELSE <<>>

\* apiMessages before the image is attached: the messages of the request,
\* with the csv context put in front
CsvMessages ==
  (IF ServedRequest.csvData THEN << [role |-> "assistant", content |-> CsvContext] >>
   ELSE <<>>)
  \o ServedRequest.messages

\* the parts one message gives; image is the url of the image_url part of
\* its content, <<>> when its content is a string
MessageParts(m, image) ==
  IF image = <<>> THEN << [text |-> m.content, imageUri |-> <<>>] >>
  ELSE << [text |-> m.content, imageUri |-> <<>>], [text |-> <<>>, imageUri |-> image] >>

\* contents[0].parts for the messages msgs with an image_url part of url
\* image attached to the last of them if it is a user message
Contents(msgs, image) ==
  << [text |-> SystemPrompt, imageUri |-> <<>>] >>
  \o Concat([i \in 1..Len(msgs) |->
               MessageParts(msgs[i],
                            IF i = Len(msgs) /\ msgs[i].role = "user" THEN image ELSE <<>>)])

\* the handler from req.json() to its first await: the upload of the image,
\* or the fetch of the provider
RequestReceived(hasKey) ==
  /\ srv.pc = "request"
  /\ srv' = IF ~hasKey
            THEN [srv EXCEPT !.pc = "ended", !.resp = ErrorResponse(500, ConfigError)]
            ELSE IF RequestImage # <<>> THEN [srv EXCEPT !.pc = "upload"]
            ELSE [srv EXCEPT !.pc = "fetch", !.parts = Contents(CsvMessages, <<>>)]
  /\ UNCHANGED << form, client, call >>

\* how an upload goes: the store is not configured, the payload is no
\* base64 image data URL, atob throws on it, the PUT rejects, the store
\* answers with a non-success status, or the object is stored
Uploads == {"noConfig", "notDataUrl", "badBase64", "rejected", "notOk", "stored"}

\* an upload without its try/catch: atob and fetch throw to the caller
uploadImageUnguarded(how) ==
  [thrown |-> how \in {"badBase64", "rejected"},
   url |-> IF how = "stored" THEN PublicUrl ELSE <<>>]

\* uploadImageToSupabase: the public URL, or <<>> for null
uploadImageToSupabase(how) ==
  [thrown |-> FALSE, url |-> IF how = "stored" THEN PublicUrl ELSE <<>>]

\* uploadImageToSupabase settled; then the handler up to the fetch of the
\* provider, or its catch
ImageUploaded(how) ==
  /\ srv.pc = "upload"
  /\ \E uploaded \in { uploadImageToSupabase(how) } :
       IF uploaded.thrown
       THEN srv' = [srv EXCEPT !.pc = "ended", !.upload = how,
                               !.resp = ErrorResponse(500, TransportError)]
       ELSE \E effective \in { IF uploaded.url # <<>> THEN uploaded.url ELSE RequestImage } :
              \* { type: "image_url", image_url: { url: imageData } }
              srv' = [srv EXCEPT !.pc = "fetch", !.upload = how,
                                 !.effectiveImageUrl = effective,
                                 !.parts = Contents(CsvMessages, RequestImage)]
  /\ UNCHANGED << form, client, call >>

\* fetch of the provider resolved with response u: the non-ok branch up to
\* response.text(), or the Response with sseStream, whose start runs up to
\* its first await
ProviderResponse(u) ==
  /\ srv.pc = "fetch"
  /\ IF u.status \notin 200..299
     THEN /\ srv' = [srv EXCEPT !.pc = "errorText", !.status = u.status]
          /\ UNCHANGED wire
     ELSE LET thrown == ~WholeDocument(u) /\ ~u.hasBody
          IN /\ srv' = [srv EXCEPT
                          !.pc = IF thrown THEN "ended"
                                 ELSE IF WholeDocument(u) THEN "json" ELSE "read",
                          !.status = u.status, !.up = u.text, !.upEnd = u.end,
                          !.resp = [kind |-> "stream", status |-> 200, error |-> <<>>]]
             /\ wire' = [wire EXCEPT ![1] =
                           [buf |-> <<>>, end |-> IF thrown THEN "errored" ELSE "open",
                            all |-> <<>>]]
  /\ UNCHANGED << form, messages, isLoading, rounds, db, conversationId, loads, call >>

\* fetch of the provider rejected: the catch of the handler
ProviderFailed ==
  /\ srv.pc = "fetch"
  /\ srv' = [srv EXCEPT !.pc = "ended", !.resp = ErrorResponse(500, TransportError)]
  /\ UNCHANGED << form, client, call >>

\* response.text() of a non-ok response settled, then the mapping of the
\* status; a rejection goes to the catch of the handler
ErrorTextRead(ok) ==
  /\ srv.pc = "errorText"
  /\ srv' = [srv EXCEPT
               !.pc = "ended",
               !.resp = IF ~ok THEN ErrorResponse(500, TransportError)
                        ELSE IF srv.status = 429 THEN ErrorResponse(429, RateLimitError)
                        ELSE IF srv.status = 402 THEN ErrorResponse(402, PaymentError)
                        ELSE ErrorResponse(500, GatewayError(srv.status))]
  /\ UNCHANGED << form, client, call >>

\* whole-document mode: response.json() settled; the pieces, the sentinel
\* and close, or controller.error when it rejected
JsonRead ==
  /\ srv.pc = "json"
  /\ \E p \in { JsonParse(srv.up) } :
       IF srv.upEnd = "errored" \/ ~p.ok
       THEN /\ srv' = [srv EXCEPT !.pc = "ended"]
            /\ wire' = [wire EXCEPT ![1].end = "errored"]
       ELSE \E pieces \in { Pieces(p.v) } :
              /\ srv' = [srv EXCEPT !.pc = "ended", !.up = <<>>, !.contents = pieces,
                                    !.json = p.v]
              /\ wire' = [wire EXCEPT ![1] =
                            [Enqueue(@, Events(pieces) \o DoneEvent) EXCEPT !.end = "closed"]]
  /\ UNCHANGED << form, messages, isLoading, rounds, db, conversationId, loads, call >>

\* a read that splits the chunk alone, forgetting the text carried over
\* from the chunks before it
UpstreamReadNoCarry(n) ==
  /\ srv.pc = "read"
  /\ n \in 1..Len(srv.up)
  /\ \E lines \in { SplitLines(SubSeq(srv.up, 1, n)) } :
       \E contents \in { LineContents(SubSeq(lines, 1, Len(lines) - 1)) } :
         /\ srv' = [srv EXCEPT !.up = From(@, n + 1), !.buffer = lines[Len(lines)],
                               !.contents = @ \o contents]
         /\ wire' = [wire EXCEPT ![1] = Enqueue(@, Events(contents))]
  /\ UNCHANGED << form, messages, isLoading, rounds, db, conversationId, loads, call >>

\* streamed mode: reader.read() resolved with a chunk of n characters
UpstreamRead(n) ==
  /\ srv.pc = "read"
  /\ n \in 1..Len(srv.up)
  /\ \E lines \in { SplitLines(srv.buffer \o SubSeq(srv.up, 1, n)) } :
       \E contents \in { LineContents(SubSeq(lines, 1, Len(lines) - 1)) } :
         /\ srv' = [srv EXCEPT !.up = From(@, n + 1), !.buffer = lines[Len(lines)],
                               !.contents = @ \o contents]
         /\ wire' = [wire EXCEPT ![1] = Enqueue(@, Events(contents))]
  /\ UNCHANGED << form, messages, isLoading, rounds, db, conversationId, loads, call >>

\* an end of the body that enqueues the sentinel before the flush
UpstreamDoneSentinelFirst ==
  /\ srv.pc = "read"
  /\ srv.up = <<>>
  /\ srv.upEnd = "closed"
  /\ \E contents \in { FlushContents(srv.buffer) } :
       /\ srv' = [srv EXCEPT !.pc = "ended", !.contents = @ \o contents]
       /\ wire' = [wire EXCEPT ![1] =
                     [Enqueue(@, DoneEvent \o Events(contents)) EXCEPT !.end = "closed"]]
  /\ UNCHANGED << form, messages, isLoading, rounds, db, conversationId, loads, call >>

\* streamed mode: reader.read() resolved with done; the flush, the sentinel
\* and close
UpstreamDone ==
  /\ srv.pc = "read"
  /\ srv.up = <<>>
  /\ srv.upEnd = "closed"
  /\ \E contents \in { FlushContents(srv.buffer) } :
       /\ srv' = [srv EXCEPT !.pc = "ended", !.contents = @ \o contents]
       /\ wire' = [wire EXCEPT ![1] =
                     [Enqueue(@, Events(contents) \o DoneEvent) EXCEPT !.end = "closed"]]
  /\ UNCHANGED << form, messages, isLoading, rounds, db, conversationId, loads, call >>

\* streamed mode: reader.read() rejected; controller.error
UpstreamError ==
  /\ srv.pc = "read"
  /\ srv.upEnd = "errored"
  /\ srv' = [srv EXCEPT !.pc = "ended"]
  /\ wire' = [wire EXCEPT ![1].end = "errored"]
  /\ UNCHANGED << form, messages, isLoading, rounds, db, conversationId, loads, call >>

(***************************************************************************)
(* The chat function serving the request of one round, and the round       *)
(* reading what it returns.                                                *)
(***************************************************************************)
\* {"content": text}
ContentDoc(text) == Obj(<< [k |-> kContent, v |-> Str(text)] >>)

\* {"candidates":[{"content":{"parts":[{"text": text}]}}]}
CandidateDoc(text) ==
  Obj(<< [k |-> kCandidates,
          v |-> Arr(<< Obj(<< [k |-> kContent,
                               v |-> Obj(<< [k |-> kParts,
                                             v |-> Arr(<< Obj(<< [k |-> kText,
                                                                  v |-> Str(text)] >>) >>)] >>)] >>) >>)] >>)

StopWord == << "S", "T", "O", "P" >>

\* bodies the provider sends as one JSON document: an array of two items,
\* a text that ends with a stop marker, a text that is only the marker, a
\* candidates document, and a document cut short
WholeBodies ==
  { JsonStringify(Arr(<< ContentDoc(Hi), ContentDoc(<< SP >> \o Lo) >>)),
    JsonStringify(ContentDoc(<< "a", SP >> \o StopWord)),
    JsonStringify(ContentDoc(StopWord)),
    JsonStringify(CandidateDoc(Hel)),
    SubSeq(JsonStringify(ContentDoc(Hi)), 1, 10) }

\* bodies the provider streams: two JSON lines, a plain line with quotes
\* followed by a last line without line break, and a line that is only a
\* stop marker followed by a blank line and a last line without line break
StreamedBodies ==
  { JsonStringify(ContentDoc(Hel)) \o << NL >> \o JsonStringify(ContentDoc(Lo)) \o << NL >>,
    << "s", "a", "y", SP, QUOTE, "x", QUOTE, CR, NL,
       "m", "o", "d", "e", "l", "-", "1", SP, "o", "k" >>,
    JsonStringify(ContentDoc(StopWord)) \o << NL, NL, SP >> \o Hi }

\* the responses of the provider: non-success statuses, whole documents,
\* streams, and success without a body
Upstreams ==
  { [status |-> st, json |-> TRUE, chunked |-> FALSE, hasBody |-> TRUE,
     text |-> <<>>, end |-> "closed"] : st \in {429, 402, 503} }
  \cup { [status |-> 200, json |-> TRUE, chunked |-> FALSE, hasBody |-> TRUE,
          text |-> t, end |-> "closed"] : t \in WholeBodies }
  \cup { [status |-> 200, json |-> TRUE, chunked |-> FALSE, hasBody |-> TRUE,
          text |-> JsonStringify(ContentDoc(Hi)), end |-> "errored"] }
  \cup { [status |-> 200, json |-> j, chunked |-> TRUE, hasBody |-> TRUE,
          text |-> t, end |-> e] :
           j \in BOOLEAN, t \in StreamedBodies, e \in {"closed", "errored"} }
  \cup { [status |-> 200, json |-> j, chunked |-> FALSE, hasBody |-> FALSE,
          text |-> <<>>, end |-> "closed"] : j \in BOOLEAN }

\* the sizes of the chunks the provider's body is read in
UpstreamChunk == 7
UpstreamCuts(up) == { n \in 1..Len(up) : n = Len(up) \/ n = UpstreamChunk }

\* the round whose request the function serves
ServedRound ==
  LET rd == [NoRound EXCEPT !.pc = "fetchChat", !.content = Hi]
  IN [rd EXCEPT !.request = ChatRequest(rd)]

\* the round with an image attached
ServedRoundWithImage ==
  LET rd == [NoRound EXCEPT !.pc = "fetchChat", !.content = Hi, !.imageData = TRUE]
  IN [rd EXCEPT !.request = ChatRequest(rd)]

\* what the fetch of the round resolves with once the function has returned
ServedResponse ==
  IF srv.resp.kind = "json" THEN [kind |-> "notok", body |-> <<>>, end |-> "closed"]
  ELSE [kind |-> "stream", body |-> wire[1].buf, end |-> wire[1].end]

\* the round's fetch resolves with the function's response
ClientReceives ==
  /\ srv.resp.kind # "none"
  /\ ChatResponse(1, ServedResponse)

InitServer ==
  /\ message = <<>>
  /\ imageFile = NoFile
  /\ csvFile = NoFile
  /\ csvUrl = <<>>
  /\ showCsvUrlInput = FALSE
  /\ \E rd \in {ServedRound, ServedRoundWithImage} :
       /\ messages = << UserMessage(1, rd) >>
       /\ rounds = [r \in RoundIds |-> IF r = 1 THEN rd ELSE NoRound]
  /\ isLoading = TRUE
  /\ wire = [r \in RoundIds |-> NoWire]
  /\ db = <<>>
  /\ conversationId = 0
  /\ loads = {}
  /\ srv = [srvIdle EXCEPT !.pc = "request"]
  /\ call = NoCall

NextServer ==
  \/ \E hasKey \in BOOLEAN : RequestReceived(hasKey)
  \/ \E how \in Uploads : ImageUploaded(how)
  \/ \E u \in Upstreams : ProviderResponse(u)
  \/ ProviderFailed
  \/ \E ok \in BOOLEAN : ErrorTextRead(ok)
  \/ JsonRead
  \/ \E n \in UpstreamCuts(srv.up) : UpstreamRead(n)
  \/ UpstreamDone
  \/ UpstreamError
  \/ ClientReceives
  \/ ErrorBodyRead(1)
  \/ \E n \in Cuts(wire[1].buf) : Read(1, n)
  \/ ReadDone(1)
  \/ ReadError(1)

SpecServer == InitServer /\ [][NextServer]_vars

(***************************************************************************)
(* The read loop of the chat function alone: the provider's body, kept in   *)
(* call.arg, is delivered in chunks of every size.                          *)
(***************************************************************************)
InitUpstream ==
  /\ message = <<>>
  /\ imageFile = NoFile
  /\ csvFile = NoFile
  /\ csvUrl = <<>>
  /\ showCsvUrlInput = FALSE
  /\ messages = << UserMessage(1, ServedRound) >>
  /\ rounds = [r \in RoundIds |-> IF r = 1 THEN ServedRound ELSE NoRound]
  /\ isLoading = TRUE
  /\ wire = [r \in RoundIds |->
               IF r = 1 THEN [buf |-> <<>>, end |-> "open", all |-> <<>>] ELSE NoWire]
  /\ db = <<>>
  /\ conversationId = 0
  /\ loads = {}
  /\ \E t \in StreamedBodies, e \in {"closed", "errored"} :
       /\ srv = [srvIdle EXCEPT !.pc = "read", !.status = 200, !.up = t, !.upEnd = e,
                                !.resp = [kind |-> "stream", status |-> 200, error |-> <<>>]]
       /\ call = [fn |-> "upstream", arg |-> t, out |-> <<>>]

NextUpstream ==
  \/ \E n \in 1..Len(srv.up) : UpstreamRead(n)
  \/ UpstreamDone
  \/ UpstreamError

SpecUpstream == InitUpstream /\ [][NextUpstream]_vars

(***************************************************************************)
(* sanitizeText applied to texts put together from fragments, and applied  *)
(* again to its own result.                                                *)
(***************************************************************************)
\* the most fragments of a text, and the most applications in a row
MaxFragments == 3
MaxApply == 2

IdRun == << "a", "b", "c", "d", "e", "f", "g", "h", "-", "1", "2", "3", "4", "5", "6", "_" >>

\* pieces of the tokens the expressions of sanitizeText look for, a word
\* character, a hyphen, white space, and a run of IdRunMin characters
Fragments ==
  { << "m", "o" >>, << "d", "e", "l" >>, << "T", "E" >>, << "T", "E", "X", "T", "1" >>,
    << "x", "t", "2" >>, StopWord, << SP >>, << NL >>, << "-" >>, << "a" >>, IdRun }

\* "model-abc123 hello STOP"
ModelHelloStop ==
  << "m", "o", "d", "e", "l", "-", "a", "b", "c", "1", "2", "3", SP,
     "h", "e", "l", "l", "o", SP >> \o StopWord

\* the texts of at most MaxFragments fragments, and the text above
SanitizeInputs ==
  { Concat(fs) : fs \in UNION { [1..n -> Fragments] : n \in 0..MaxFragments } }
  \cup { ModelHelloStop }

\* sanitizeText(s), and sanitizeText of the result before
Sanitize ==
  /\ call.fn = "sanitizeText"
  /\ Len(call.out) < MaxApply
  /\ \E r \in { sanitizeText(IF call.out = <<>> THEN call.arg
                             ELSE call.out[Len(call.out)]) } :
       call' = [call EXCEPT !.out = Append(@, r)]
  /\ UNCHANGED << form, client, srv >>

InitSanitize ==
  /\ message = <<>>
  /\ imageFile = NoFile
  /\ csvFile = NoFile
  /\ csvUrl = <<>>
  /\ showCsvUrlInput = FALSE
  /\ messages = <<>>
  /\ isLoading = FALSE
  /\ rounds = [r \in RoundIds |-> NoRound]
  /\ wire = [r \in RoundIds |-> NoWire]
  /\ db = <<>>
  /\ conversationId = 0
  /\ loads = {}
  /\ srv = srvIdle
  /\ \E x \in SanitizeInputs : call = [fn |-> "sanitizeText", arg |-> x, out |-> <<>>]

NextSanitize == Sanitize

SpecSanitize == InitSanitize /\ [][NextSanitize]_vars

(***************************************************************************)
(* extractText and collectText applied to decoded JSON values.             *)
(***************************************************************************)
\* keys that neither function looks for
kA == << "a" >>
kB == << "b" >>

Member(k, v) == [k |-> k, v |-> v]

\* leaves of the values: strings, the empty string and null
TextLeaves == { Str(<< "x" >>), Str(<< "y" >>), Str(<<>>), Null }

\* {"a": l1, "b": l2}
Flat(leaves) == { Obj(<< Member(kA, l1), Member(kB, l2) >>) : l1, l2 \in leaves }

\* objects of unknown keys only: flat, with a nested object, and with an
\* array of a string and an object
UnknownShapes ==
  Flat(TextLeaves)
  \cup { Obj(<< Member(kB, o), Member(kA, l) >>) : o \in Flat(TextLeaves), l \in TextLeaves }
  \cup { Obj(<< Member(kA, Arr(<< l, Obj(<< Member(kB, Str(<< "z" >>)) >>) >>)) >>) :
           l \in TextLeaves }

\* elements of a sequence: null, values that are no objects, and objects
SequenceElements ==
  { Null, Str(<< "s" >>), Num(<< "5" >>), Bool(TRUE), Arr(<<>>), Obj(<<>>),
    Obj(<< Member(kText, Str(<< "T" >>)) >>) }

\* {key: [e]} and {key: [{"text":"T"}, e]} for the keys whose value the
\* functions iterate
SequenceShapes ==
  { Obj(<< Member(key, Arr(es)) >>) :
      key \in {kChoices, kCandidates, kParts, kContent},
      es \in { << e >> : e \in SequenceElements }
             \cup { << Obj(<< Member(kText, Str(<< "T" >>)) >>), e >> : e \in SequenceElements } }

\* the shapes both functions know
KnownShapes ==
  { Payload(Hi), CandidateDoc(Hel), ContentDoc(Lo), Str(Hi), Num(<< "5" >>), Null,
    Obj(<< Member(kOutput, Obj(<< Member(kContent, Str(Hi)) >>)) >>),
    Obj(<< Member(kChoices, Arr(<< Obj(<< Member(kMessage,
             Obj(<< Member(kContent, Str(Hi)) >>)) >>) >>)) >>) }

kFinishReason == << "f", "i", "n", "i", "s", "h", "R", "e", "a", "s", "o", "n" >>
kIndex == << "i", "n", "d", "e", "x" >>

\* {"content":{"parts":[{"text": t1}, ...]}} followed by more members
Candidate(texts, more) ==
  Obj(<< Member(kContent,
                Obj(<< Member(kParts,
                              Arr([i \in 1..Len(texts) |->
                                     Obj(<< Member(kText, Str(texts[i])) >>)])) >>)) >>
      \o more)

\* values with a candidates sequence: two candidates, a candidate of two
\* parts, a candidate with finishReason and index, a candidate with
\* output.content after one with parts, and the other way round
CandidateShapes ==
  { Obj(<< Member(kCandidates, Arr(cs)) >>) :
      cs \in { << Candidate(<< Hel >>, <<>>), Candidate(<< Lo >>, <<>>) >>,
               << Candidate(<< Hel, Lo >>, <<>>) >>,
               << Candidate(<< Hi >>, << Member(kFinishReason, Str(StopWord)),
                                         Member(kIndex, Num(<< "0" >>)) >>) >>,
               << Candidate(<< Hel >>, <<>>),
                  Obj(<< Member(kOutput, Obj(<< Member(kContent, Str(Lo)) >>)) >>) >>,
               << Obj(<< Member(kOutput, Obj(<< Member(kContent, Str(Hel)) >>)) >>),
                  Candidate(<< Lo >>, <<>>) >> } }

\* values with a choices sequence: two elements with delta.content, an
\* element with an empty delta.content and a text, an element with
\* message.content before one with a text, and an element with a text
\* before one with delta.content
ChoiceShapes ==
  { Obj(<< Member(kChoices, Arr(cs)) >>) :
      cs \in { << Obj(<< Member(kDelta, Obj(<< Member(kContent, Str(Hel)) >>)) >>),
                  Obj(<< Member(kDelta, Obj(<< Member(kContent, Str(Lo)) >>)) >>) >>,
               << Obj(<< Member(kDelta, Obj(<< Member(kContent, Str(<<>>)) >>)),
                         Member(kText, Str(Hi)) >>) >>,
               << Obj(<< Member(kMessage, Obj(<< Member(kContent, Str(Hel)) >>)) >>),
                  Obj(<< Member(kText, Str(Lo)) >>) >>,
               << Obj(<< Member(kText, Str(Hi)) >>),
                  Obj(<< Member(kDelta, Obj(<< Member(kContent, Str(Lo)) >>)) >>) >> } }

ExtractInputs ==
  UnknownShapes \cup SequenceShapes \cup KnownShapes \cup CandidateShapes \cup ChoiceShapes

\* extractText(v) of the server returns
ExtractText ==
  /\ call.fn = "extractText"
  /\ call.out = <<>>
  /\ \E r \in { extractText(call.arg) } : call' = [call EXCEPT !.out = << Ret(r) >>]
  /\ UNCHANGED << form, client, srv >>

\* collectText(v) of the client returns or throws
CollectText ==
  /\ call.fn = "collectText"
  /\ call.out = <<>>
  /\ \E r \in { collectText(call.arg) } : call' = [call EXCEPT !.out = << r >>]
  /\ UNCHANGED << form, client, srv >>

InitExtract ==
  /\ message = <<>>
  /\ imageFile = NoFile
  /\ csvFile = NoFile
  /\ csvUrl = <<>>
  /\ showCsvUrlInput = FALSE
  /\ messages = <<>>
  /\ isLoading = FALSE
  /\ rounds = [r \in RoundIds |-> NoRound]
  /\ wire = [r \in RoundIds |-> NoWire]
  /\ db = <<>>
  /\ conversationId = 0
  /\ loads = {}
  /\ srv = srvIdle
  /\ \E f \in {"extractText", "collectText"}, v \in ExtractInputs :
       call = [fn |-> f, arg |-> v, out |-> <<>>]

NextExtract ==
  \/ ExtractText
  \/ CollectText

SpecExtract == InitExtract /\ [][NextExtract]_vars

(***************************************************************************)
(* The line loop of the chat function and the event loop of the client on   *)
(* bodies put together from malformed and well-formed fragments.            *)
(***************************************************************************)
\* the most fragments of a body
MaxItems == 3

\* upstream lines with the content each is to give: plain text with
\* quotes, a JSON document cut short, a JSON document
ServerItems ==
  { [text |-> t, content |-> sanitizeText(t)] :
      t \in { << "s", "a", "y", SP, QUOTE, "x", QUOTE >>,
              SubSeq(JsonStringify(ContentDoc(Hi)), 1, 10) } }
  \cup { [text |-> JsonStringify(ContentDoc(Hel)), content |-> Hel] }

\* events with the content each is to give: plain text, a JSON payload
\* cut short, a payload collectText throws on, a canonical event
ClientItems ==
  { [text |-> DataPrefix \o << SP >> \o t, content |-> t] :
      t \in { Hi,
              SubSeq(JsonStringify(Payload(Hi)), 1, 10),
              JsonStringify(Obj(<< [k |-> kChoices, v |-> Arr(<< Null >>)] >>)) } }
  \cup { [text |-> CanonicalLine(Lo), content |-> Lo] }

RECURSIVE ItemSeqs(_, _)
\* the sequences of 1 to k items of S
ItemSeqs(S, k) ==
  IF k = 0 THEN {}
  ELSE { << x >> : x \in S } \cup { << x >> \o t : x \in S, t \in ItemSeqs(S, k - 1) }

\* the items, each followed by the line breaks brk
Joined(items, brk) == Concat([i \in 1..Len(items) |-> items[i].text \o brk])

\* the contents of the events sseStream enqueues for an upstream body that
\* arrives in one chunk and then ends
BodyContents(body) ==
  The({ LineContents(SubSeq(lines, 1, Len(lines) - 1)) \o FlushContents(lines[Len(lines)]) :
          lines \in { SplitLines(body) } })

\* the chat function reframes the lines of call.arg; with call.arg.flush
\* the last line has no line break
ReframeLines ==
  /\ call.fn = "reframe"
  /\ call.out = <<>>
  /\ \E body \in { Joined(call.arg.items, << NL >>) } :
       \E c \in { BodyContents(IF call.arg.flush THEN SubSeq(body, 1, Len(body) - 1)
                               ELSE body) } :
         call' = [call EXCEPT !.out = << c >>]
  /\ UNCHANGED << form, client, srv >>

\* the client reads the events of call.arg to the end of the body
ReadEvents ==
  /\ call.fn = "read"
  /\ call.out = <<>>
  /\ \E st \in { ReadWhole(Joined(call.arg.items, << NL, NL >>)) } :
       call' = [call EXCEPT !.out = << st.deltas >>]
  /\ UNCHANGED << form, client, srv >>

\* the lines of an event with what each is to contribute: data lines with
\* one space, with none, with two (inside leading and trailing space) and
\* with nothing after the prefix; a comment and a field whose value
\* holds the prefix
EventLines ==
  { [text |-> DataPrefix \o << SP >> \o Hi, data |-> TRUE, content |-> Hi],
    [text |-> DataPrefix \o Lo, data |-> TRUE, content |-> Lo],
    [text |-> << SP >> \o DataPrefix \o << SP, SP, "x", SP >>, data |-> TRUE,
     content |-> << SP, "x" >>],
    [text |-> DataPrefix, data |-> TRUE, content |-> <<>>],
    [text |-> << ":", "k" >>, data |-> FALSE, content |-> <<>>],
    [text |-> << "i", "d", ":", SP >> \o DataPrefix \o << "z" >>, data |-> FALSE,
     content |-> <<>>] }

\* the loop body of the client takes the event whose lines are call.arg,
\* separated by call.arg.brk
TakeEvent ==
  /\ call.fn = "event"
  /\ call.out = <<>>
  /\ \E body \in { Joined(call.arg.items, call.arg.brk) } :
       \E e \in { ProcessEvent(SubSeq(body, 1, Len(body) - Len(call.arg.brk))) } :
         call' = [call EXCEPT !.out = << e.delta >>]
  /\ UNCHANGED << form, client, srv >>

InitFragments ==
  /\ message = <<>>
  /\ imageFile = NoFile
  /\ csvFile = NoFile
  /\ csvUrl = <<>>
  /\ showCsvUrlInput = FALSE
  /\ messages = <<>>
  /\ isLoading = FALSE
  /\ rounds = [r \in RoundIds |-> NoRound]
  /\ wire = [r \in RoundIds |-> NoWire]
  /\ db = <<>>
  /\ conversationId = 0
  /\ loads = {}
  /\ srv = srvIdle
  /\ \/ \E items \in ItemSeqs(ServerItems, MaxItems), flush \in BOOLEAN :
          call = [fn |-> "reframe", arg |-> [items |-> items, flush |-> flush], out |-> <<>>]
     \/ \E items \in ItemSeqs(ClientItems, MaxItems) :
          call = [fn |-> "read", arg |-> [items |-> items, flush |-> FALSE], out |-> <<>>]
     \/ \E items \in ItemSeqs(EventLines, MaxItems), brk \in { << NL >>, << CR, NL >> } :
          call = [fn |-> "event", arg |-> [items |-> items, brk |-> brk], out |-> <<>>]

NextFragments ==
  \/ ReframeLines
  \/ ReadEvents
  \/ TakeEvent

SpecFragments == InitFragments /\ [][NextFragments]_vars

(***************************************************************************)
(* Properties of the client reader (SpecReader).                           *)
(***************************************************************************)
\* the text of the body of round r that has been read so far
ConsumedText(r) == SubSeq(wire[r].all, 1, Len(wire[r].all) - Len(wire[r].buf))

\* C1: however the stream is cut into chunks, the reader is, after every
\* chunk, in the state it reaches when the text read so far arrives as one
\* chunk, and when the stream has ended its deltas and the assistant content
\* are those of the whole stream delivered in one chunk.
C1_ChunkingIndependence ==
  LET rd == rounds[1]
      one == RunChunk(ReaderInit, ConsumedText(1))
  IN /\ rd.pc \in {"reading", "failed"} =>
          /\ rd.reader = one
          /\ rd.assistantContent = Concat(one.deltas)
     /\ rd.pc = "completed" =>
          /\ rd.reader.deltas = ReadWhole(wire[1].all).deltas
          /\ rd.assistantContent = Concat(ReadWhole(wire[1].all).deltas)
          /\ \E i \in 1..Len(messages) :
               /\ messages[i].id = AsstMsgId(1)
               /\ messages[i].content = rd.assistantContent

\* a chunk has ended between the two line breaks of a blank line, after a
\* delta was applied and with text still buffered
C1_CutInsideSeparator ==
  LET rd == rounds[1]
  IN /\ rd.pc = "reading"
     /\ rd.reader.deltas # <<>>
     /\ rd.reader.buffer # <<>>
     /\ rd.reader.buffer[Len(rd.reader.buffer)] = NL
     /\ wire[1].buf # <<>>
     /\ wire[1].buf[1] \in {NL, CR}

\* C3: once an event with payload [DONE] has been processed, nothing that
\* follows it in the stream adds a delta to the assistant message.
C3_StopsAfterDone == \A r \in RoundIds : rounds[r].reader.afterDone = 0

\* the contents of the canonical events of the streams
CanonicalContents == { << "X" >>, << "Y" >>, Hel, Lo }

\* C4: when the stream ends with a canonical event that no blank line
\* follows, the round ends with the deltas of the same stream ended by a
\* blank line: the content of the event is the last delta.
C4_FlushCanonicalEvent ==
  \A p \in CanonicalContents :
    LET rd == rounds[1]
    IN (rd.pc = "completed" /\ Trim(rd.reader.buffer) = CanonicalLine(p)) =>
         /\ rd.reader.deltas = RunChunk(ReaderInit, wire[1].all \o << NL, NL >>).deltas
         /\ rd.reader.deltas[Len(rd.reader.deltas)] = p

\* C18: the transcript has been updated once for each delta yielded so
\* far; an event without text (blank, without data: lines, with an empty
\* payload, the sentinel, JSON without text) has caused no update.
C18_OneUpdatePerDelta ==
  \A r \in RoundIds : rounds[r].reader.updates = Len(rounds[r].reader.deltas)

\* a round has read a stream with two deltas and the sentinel to its end
C18_TwoUpdates ==
  \E r \in RoundIds :
    /\ rounds[r].pc = "completed"
    /\ rounds[r].reader.sawDone
    /\ rounds[r].reader.deltas = << Hel, Lo >>
    /\ rounds[r].reader.updates = 2

\* C19: once the reader has processed the sentinel of a source that stays
\* open, the round is completed and the session idle.
C19_DoneEndsRound ==
  (rounds[1].reader.sawDone /\ wire[1].end = "open")
    ~> (rounds[1].pc = "completed" /\ ~isLoading)

\* the blank-line separators buffer.split(/\r?\n\r?\n/) matches
EventSeparators ==
  { << NL, NL >>, << CR, NL, NL >>, << NL, CR, NL >>, << CR, NL, CR, NL >> }

\* text s ends with text t
EndsWith(s, t) == Len(t) <= Len(s) /\ SubSeq(s, Len(s) - Len(t) + 1, Len(s)) = t

RECURSIVE Decomposes(_, _, _)
\* text is the events, each followed by a separator, followed by rest
Decomposes(text, events, rest) ==
  IF events = <<>> THEN text = rest
  ELSE /\ StartsWith(text, events[1])
       /\ \E sep \in EventSeparators :
            /\ StartsWith(From(text, Len(events[1]) + 1), sep)
            /\ Decomposes(From(text, Len(events[1]) + Len(sep) + 1), Tail(events), rest)

\* C27: after every chunk the buffer of the reader holds no complete
\* separator, and the text read so far is the resolved events, each
\* followed by its separator, followed by the buffer.
C27_BufferIsUnresolvedSuffix ==
  \A r \in RoundIds :
    \E events \in { SplitEvents(ConsumedText(r)) } :
      /\ SplitEvents(rounds[r].reader.buffer) = << rounds[r].reader.buffer >>
      /\ \A sep \in EventSeparators, i \in 1..Len(rounds[r].reader.buffer) :
           ~StartsWith(From(rounds[r].reader.buffer, i), sep)
      /\ Decomposes(ConsumedText(r), SubSeq(events, 1, Len(events) - 1),
                    rounds[r].reader.buffer)

\* the reader has resolved the first event of a stream and holds the
\* beginning of the second in its buffer
C27_SecondEventInBuffer ==
  /\ rounds[1].pc = "reading"
  /\ rounds[1].reader.deltas = << Hel >>
  /\ rounds[1].reader.buffer = DataPrefix
  /\ ConsumedText(1) = CanonicalEvent(Hel) \o DataPrefix

\* text t occurs in text s
Occurs(s, t) == \E i \in 1..Len(s) : StartsWith(From(s, i), t)

\* the last event of the body of round r is the sentinel, with or without
\* line breaks after it
LastEventIsDone(r) ==
  EndsWith(TrimEnd(wire[r].all), DataPrefix \o << SP >> \o DoneText)

\* C28: of a stream whose last event is data: [DONE], ended by a blank
\* line or by the end of the source, no delta holds the sentinel text.
C28_SentinelNeverInContent ==
  \A r \in RoundIds :
    LastEventIsDone(r) =>
      /\ ~Occurs(rounds[r].assistantContent, DoneText)
      /\ \A i \in 1..Len(rounds[r].reader.deltas) :
           ~Occurs(rounds[r].reader.deltas[i], DoneText)

(***************************************************************************)
(* Properties of the session (Spec) and of the form (SpecForm).            *)
(***************************************************************************)
\* the deltas of round r have been applied to its assistant message
Applied(r) ==
  \A i \in 1..Len(messages) :
    messages[i].id = AsstMsgId(r) => messages[i].content = Concat(rounds[r].reader.deltas)

C5_OneActiveRound == Cardinality({ r \in RoundIds : Active(r) }) <= 1

\* C6: the step in which a round fails leaves the transcript as it is and
\* reports one error, the only one of the round; a failed round does nothing
\* more.
C6_FailureKeepsTranscript ==
  [][\A r \in RoundIds :
       /\ (rounds[r].pc # "failed" /\ rounds'[r].pc = "failed") =>
            /\ messages' = messages
            /\ rounds[r].toasts = 0
            /\ rounds'[r].toasts = 1
       /\ rounds[r].pc = "failed" => rounds'[r] = rounds[r]]_vars

\* a round has failed after a delta was applied: its user message and the
\* partial assistant content are in the transcript and one error is reported
C6_FailedAfterPartialContent ==
  \E r \in RoundIds :
    /\ rounds[r].pc = "failed"
    /\ rounds[r].toasts = 1
    /\ rounds[r].assistantContent = Hel
    /\ \E i, j \in 1..Len(messages) :
         /\ messages[i].id = UserMsgId(r)
         /\ messages[j].id = AsstMsgId(r)
         /\ messages[j].content = Hel

\* the text is empty or white space and no image, file or URL is supplied
NothingToSend ==
  /\ \A i \in 1..Len(message) : IsSpace(message[i])
  /\ imageFile = NoFile
  /\ csvFile = NoFile
  /\ csvUrl = <<>>

\* C7: from a state in which there is nothing to send no round starts, so
\* the session stays idle if it was, and with no round under way the
\* transcript and the bodies on the wire stay as they are.
C7_EmptySubmitRejected ==
  [][NothingToSend =>
       /\ \A r \in RoundIds : rounds[r].pc = "none" => rounds'[r].pc = "none"
       /\ ~isLoading => ~isLoading'
       /\ (\A r \in RoundIds : ~Active(r)) => (messages' = messages /\ wire' = wire)]_vars

\* the form holds white space only while the session is idle
C7_WhitespaceOnlyForm ==
  /\ message = << SP >>
  /\ NothingToSend
  /\ ~isLoading
  /\ \A r \in RoundIds : ~Active(r)

\* the rows of the messages table that hold the assistant message of round r
AssistantRows(rows, r) == SelectSeq(rows, LAMBDA row : row.id = AsstMsgId(r))

\* the step in which the insert of the assistant message of round r
\* settles: the row, if written, has the content the round accumulated,
\* which is the content of its message in the transcript; the transcript
\* stays, no error is reported, the round is completed and the session idle
SaveSettles(r) ==
  /\ rounds'[r] = [rounds[r] EXCEPT !.pc = "completed"]
  /\ messages' = messages
  /\ Applied(r)
  /\ isLoading' = FALSE
  /\ \/ db' = db
     \/ /\ Len(db') = Len(db) + 1
        /\ SubSeq(db', 1, Len(db)) = db
        /\ db'[Len(db')].id = AsstMsgId(r)
        /\ db'[Len(db')].conversation_id = rounds[r].conv
        /\ db'[Len(db')].content = rounds[r].assistantContent

\* outside that step the rows of the round stay as they are, there is at
\* most one of them, and a completed round does nothing more
SavedOnce(r) ==
  /\ rounds[r].pc # "saveAssistant" => AssistantRows(db', r) = AssistantRows(db, r)
  /\ Len(AssistantRows(db', r)) <= 1
  /\ rounds[r].pc = "completed" => rounds'[r] = rounds[r]

\* the step in which round r ends reading its stream
StreamCompletes(r) ==
  rounds[r].pc = "reading" /\ rounds'[r].pc \in {"saveAssistant", "completed"}

\* C15 as stated: a round whose stream completes hands its content to the
\* messages table exactly when the content is not empty, once, with the
\* content of its assistant message; a failed write leaves the transcript
\* and the outcome of the round as they are.
C15_PersistedOnce ==
  [][\A r \in RoundIds :
       /\ StreamCompletes(r) =>
            (rounds'[r].pc = "saveAssistant" <=> rounds'[r].assistantContent # <<>>)
       /\ (rounds[r].pc = "saveAssistant" /\ rounds'[r] # rounds[r]) => SaveSettles(r)
       /\ SavedOnce(r)]_vars

\* C15 amended: the content is handed over exactly when it is not empty
\* and a conversation was selected when the round began; the rest as
\* stated.
C15_PersistedOnceInConversation ==
  [][\A r \in RoundIds :
       /\ StreamCompletes(r) =>
            (rounds'[r].pc = "saveAssistant" <=>
               (rounds'[r].assistantContent # <<>> /\ rounds[r].conv # 0))
       /\ (rounds[r].pc = "saveAssistant" /\ rounds'[r] # rounds[r]) => SaveSettles(r)
       /\ SavedOnce(r)]_vars

\* a round in a conversation has completed with content after its write
\* failed: no row holds its assistant message, no error was reported
C15_CompletedAfterFailedWrite ==
  \E r \in RoundIds :
    /\ rounds[r].pc = "completed"
    /\ rounds[r].conv # 0
    /\ rounds[r].assistantContent = Hel \o Lo
    /\ rounds[r].toasts = 0
    /\ AssistantRows(db, r) = <<>>
    /\ ~isLoading

\* no message of round r is in the transcript
NoMessageOf(r) ==
  \A i \in 1..Len(messages) : messages[i].id \notin {UserMsgId(r), AsstMsgId(r)}

\* C16: a round whose fetch of the csv url fails is aborted: it calls the
\* chat endpoint at no time, none of its messages is appended, one error is
\* reported and the session is idle.
C16_CsvFailureAborts ==
  [][\A r \in RoundIds :
       /\ (rounds[r].pc = "fetchCsv" /\ rounds'[r].pc # "fetchCsv") =>
            \/ /\ rounds'[r].pc = "aborted"
               /\ rounds'[r].toasts = rounds[r].toasts + 1
               /\ messages' = messages
               /\ isLoading' = FALSE
            \/ /\ rounds'[r].pc \in {"saveUser", "fetchChat"}
               /\ rounds'[r].csvData
       /\ rounds'[r].pc = "aborted" =>
            /\ rounds[r].pc \in {"fetchCsv", "aborted"}
            /\ rounds'[r].request = <<>>
            /\ rounds'[r].toasts = 1
            /\ wire'[r] = NoWire
            /\ NoMessageOf(r)'
       /\ rounds[r].pc = "aborted" => rounds'[r] = rounds[r]]_vars

\* a round with a csv url has been aborted: the transcript is empty, the
\* error has been reported and the session is idle
C16_AbortedRound ==
  \E r \in RoundIds :
    /\ rounds[r].pc = "aborted"
    /\ rounds[r].csvUrl # <<>>
    /\ rounds[r].toasts = 1
    /\ rounds[r].request = <<>>
    /\ messages = <<>>
    /\ ~isLoading

\* the user message of round r is in the transcript
HasUserMessage(r) == \E i \in 1..Len(messages) : messages[i].id = UserMsgId(r)

\* the user message of round r is followed by its empty assistant message
UserThenEmptyAssistant(r) ==
  \E i \in 1..(Len(messages) - 1) :
    /\ messages[i].id = UserMsgId(r)
    /\ messages[i + 1].id = AsstMsgId(r)
    /\ messages[i + 1].content = <<>>

\* round r is calling the chat endpoint, or has failed at the call
AtTheCall(r) ==
  \/ rounds[r].pc \in {"fetchChat", "errorBody"}
  \/ rounds[r].pc = "failed" /\ wire[r] = NoWire

\* C17: from the call of the chat endpoint on, however the call ends, the
\* user message of the round is followed in the transcript by its empty
\* assistant message; so it is after a round that failed at the call.
C17_AssistantAppendedBeforeCall ==
  \A r \in RoundIds : (AtTheCall(r) /\ HasUserMessage(r)) => UserThenEmptyAssistant(r)

\* file.type.startsWith("image/") and file.size <= 5 MB
ValidImage(f) == f.kind = "image" /\ f.size <= 5 * MB
\* file.name.endsWith(".csv") and file.size <= 10 MB
ValidCsv(f) == f.kind = "csv" /\ f.size <= 10 * MB

\* C22: the pending attachments of the form, and the attachments of every
\* round, have passed validation: an image has an image type and at most
\* 5 MB, a csv file has the csv suffix and at most 10 MB.
C22_OnlyValidAttachments ==
  /\ imageFile # NoFile => ValidImage(imageFile)
  /\ csvFile # NoFile => ValidCsv(csvFile)
  /\ \A r \in RoundIds :
       /\ rounds[r].imageFile # NoFile => ValidImage(rounds[r].imageFile)
       /\ rounds[r].csvFile # NoFile => ValidCsv(rounds[r].csvFile)

\* a round has been sent with an image and a csv file, both read
C22_SentWithAttachments ==
  \E r \in RoundIds :
    /\ rounds[r].pc = "fetchChat"
    /\ ValidImage(rounds[r].imageFile)
    /\ ValidCsv(rounds[r].csvFile)
    /\ rounds[r].imageData /\ rounds[r].csvData

\* the places where the control flow of a round has ended: after the last
\* statement, in the catch block, at the return of the csv url branch
Ended == {"completed", "failed", "aborted"}

\* C23: a round that was started ends, completed or failed (the return
\* after a failed fetch of the csv url is a failure that was reported), and
\* the session is idle then; while no round is under way isLoading is
\* false; a round that has ended does nothing more.
C23_RoundEnds ==
  /\ \A r \in RoundIds :
       (rounds[r].pc # "none") ~> (rounds[r].pc \in Ended /\ ~isLoading)
  /\ []((\A r \in RoundIds : rounds[r].pc \in Ended \cup {"none"}) => ~isLoading)
  /\ [][\A r \in RoundIds :
          /\ rounds[r].pc \in Ended => rounds'[r] = rounds[r]
          /\ rounds[r].pc = "aborted" => rounds[r].toasts = 1
          /\ rounds[r].pc = "failed" => rounds[r].toasts = 1
          /\ rounds[r].pc = "completed" => rounds[r].toasts = 0]_vars

\* a round with an image and a csv url in a conversation has completed
\* with content, and the session is idle
C23_CompletedWithAttachments ==
  \E r \in RoundIds :
    /\ rounds[r].pc = "completed"
    /\ rounds[r].imageData /\ rounds[r].csvData /\ rounds[r].csvUrl # <<>>
    /\ rounds[r].conv # 0
    /\ rounds[r].assistantContent = Hel \o Lo
    /\ ~isLoading

(***************************************************************************)
(* Properties of the chat function and of the round it serves (SpecServer). *)
(***************************************************************************)
\* C8: when the function has answered a success status of the provider with
\* an event stream and the stream's start has run to its end, the body ends
\* with the [DONE] event and the stream is closed, whatever the provider's
\* body was and however its read ended.
C8_StreamEndsWithDone ==
  (srv.pc = "ended" /\ srv.resp.kind = "stream") =>
    /\ wire[1].end = "closed"
    /\ EndsWith(wire[1].all, DoneEvent)

\* C9: once the function has answered a non-success status of the provider,
\* the response is a JSON error: 429 with the rate limit message for 429,
\* 402 with the payment message for 402, and otherwise 500 with the
\* provider's status in the message.
C9_ErrorStatusMapped ==
  (srv.pc = "ended" /\ srv.status # 0 /\ srv.status \notin 200..299) =>
    srv.resp = IF srv.status = 429 THEN ErrorResponse(429, RateLimitError)
               ELSE IF srv.status = 402 THEN ErrorResponse(402, PaymentError)
               ELSE ErrorResponse(500, GatewayError(srv.status))

\* the entries of a sequence of texts that are not empty
NonEmpty(texts) == SelectSeq(texts, LAMBDA t : t # <<>>)

\* sequence a is the beginning of sequence b
IsPrefix(a, b) == Len(a) <= Len(b) /\ SubSeq(b, 1, Len(a)) = a

\* C10: the deltas the round's reader has yielded are, at every point, the
\* first of the non-empty content strings the function has put into events,
\* in their order; when the round has read the closed stream to its end
\* they are all of them, and the assistant content is their concatenation.
C10_ComposeWithoutLoss ==
  LET rd == rounds[1]
      sent == NonEmpty(srv.contents)
  IN /\ IsPrefix(rd.reader.deltas, sent)
     /\ rd.assistantContent = Concat(rd.reader.deltas)
     /\ rd.pc = "completed" =>
          /\ rd.reader.deltas = sent
          /\ rd.assistantContent = Concat(sent)

\* the round has read to its end a stream into which the function put two
\* contents from a whole document, and holds both as deltas
C10_TwoContentsDelivered ==
  /\ rounds[1].pc = "completed"
  /\ srv.contents = << Hi, Lo >>
  /\ rounds[1].reader.deltas = << Hi, Lo >>
  /\ rounds[1].assistantContent = Hi \o Lo

(***************************************************************************)
(* Properties of sanitizeText (SpecSanitize).                              *)
(***************************************************************************)
\* the results of sanitizeText: of the argument, and of that result
Sanitized == call.out[1]
SanitizedTwice == call.out[2]

\* C11: sanitizeText of a result of sanitizeText is that result.
C11_Idempotent ==
  (call.fn = "sanitizeText" /\ Len(call.out) >= 2) => SanitizedTwice = Sanitized

\* a token of the text begins with "model", whatever the case
HasModelToken(s) ==
  \E i \in 1..Len(s) :
    /\ HasWordAt(s, i, << "m", "o", "d", "e", "l" >>)
    /\ (i = 1 \/ s[i - 1] \in {SP, NL, CR})

\* the text has "TEXT", whatever the case, followed by a digit
HasTextDigits(s) ==
  \E i \in 1..Len(s) :
    HasWordAt(s, i, << "t", "e", "x", "t" >>) /\ IsDigit(At(s, i + 4))

\* the text has the word "STOP", whatever the case, standing alone
HasStopWord(s) ==
  \E i \in 1..Len(s) :
    /\ HasWordAt(s, i, << "s", "t", "o", "p" >>)
    /\ ~IsWordChar(At(s, i - 1))
    /\ ~IsWordChar(At(s, i + 4))

\* the text has a run of IdRunMin characters of [_A-Za-z0-9-]
HasIdRun(s) ==
  \E i \in 1..(Len(s) - IdRunMin + 1) : \A q \in i..(i + IdRunMin - 1) : IsIdChar(s[q])

\* the text has two white space characters in a row, or begins or ends
\* with white space
HasLooseSpace(s) ==
  \/ \E i \in 1..(Len(s) - 1) : IsSpace(s[i]) /\ IsSpace(s[i + 1])
  \/ s # <<>> /\ (IsSpace(s[1]) \/ IsSpace(s[Len(s)]))

Hello == << "h", "e", "l", "l", "o" >>

RECURSIVE LeafStrings(_)
RECURSIVE LeafStringsOf(_)
\* the string values at the leaves of a value, in order, as one text
LeafStrings(v) ==
  CASE v.t = "str" -> v.s
    [] v.t = "arr" -> LeafStringsOf(v.a)
    [] v.t = "obj" -> LeafStringsOf([i \in 1..Len(v.a) |-> v.a[i].v])
    [] OTHER -> <<>>
LeafStringsOf(vs) ==
  IF vs = <<>> THEN <<>> ELSE LeafStrings(vs[1]) \o LeafStringsOf(Tail(vs))

\* C13: for an object that has none of the known keys at any level, each of
\* the two functions returns the string values of its leaves, in order, as
\* one text.
C13_UnknownShapeLeaves ==
  (call.arg \in UnknownShapes /\ call.out # <<>>) =>
    /\ ~call.out[1].thrown
    /\ call.out[1].s = LeafStrings(call.arg)

\* C14: each of the two functions returns a text for every value and never
\* throws, whatever the elements of the sequences it iterates.
C14_NeverThrows ==
  (call.fn \in {"extractText", "collectText"} /\ call.out # <<>>) =>
    /\ ~call.out[1].thrown
    /\ call.out[1].s \in Seq(STRING)

\* the text of one candidate: the texts of its content.parts joined, else
\* the strings of its output.content
CandidateText(c) ==
  IF IsArray(Get(Get(c, kContent), kParts)) THEN
    Concat([i \in 1..Len(Get(Get(c, kContent), kParts).a) |->
              Get(Get(Get(c, kContent), kParts).a[i], kText).s])
  ELSE LeafStrings(Get(Get(c, kOutput), kContent))

\* C30: for a value with a candidates sequence each of the two functions
\* returns the texts of all the candidates, in order, joined without
\* separator: of each candidate the texts of its content.parts, else its
\* output.content; no other field of a candidate contributes.
C30_AllCandidatesJoined ==
  (call.arg \in CandidateShapes /\ call.out # <<>>) =>
    /\ ~call.out[1].thrown
    /\ call.out[1].s =
         Concat([i \in 1..Len(Get(call.arg, kCandidates).a) |->
                   CandidateText(Get(call.arg, kCandidates).a[i])])

\* the text of one element of choices: its delta.content, else the strings
\* of its message.content, else its text, the first that is not empty
ChoiceText(c) ==
  IF Get(Get(c, kDelta), kContent).s # <<>> THEN Get(Get(c, kDelta), kContent).s
  ELSE IF LeafStrings(Get(Get(c, kMessage), kContent)) # <<>> THEN
    LeafStrings(Get(Get(c, kMessage), kContent))
  ELSE Get(c, kText).s

\* C31: for a value with a choices sequence each of the two functions
\* returns what the first element gives: its delta.content, else its
\* message.content, else its text, the first that is not empty; the later
\* elements contribute nothing.
C31_FirstChoiceOnly ==
  (call.arg \in ChoiceShapes /\ call.out # <<>>) =>
    /\ ~call.out[1].thrown
    /\ call.out[1].s = ChoiceText(Get(call.arg, kChoices).a[1])

\* round r applies a delta in this step
DeltaApplied(r) == rounds'[r].assistantContent # rounds[r].assistantContent

\* C32: a step that applies a delta of round r leaves the transcript as
\* long as it was and in the same order, leaves every other message as it
\* was, and changes of the assistant message of r the content only: its
\* id, role, timestamp and attachment fields stay.
C32_DeltaChangesContentOnly ==
  [][\A r \in RoundIds :
       DeltaApplied(r) =>
         /\ Len(messages') = Len(messages)
         /\ \A i \in 1..Len(messages) :
              /\ messages'[i] = [messages[i] EXCEPT !.content = messages'[i].content]
              /\ messages[i].id # AsstMsgId(r) => messages'[i] = messages[i]]_vars

\* a delta has been applied to the second assistant message of a
\* transcript of four messages
C32_SecondRoundDelta ==
  /\ Len(messages) = 4
  /\ messages[4].id = AsstMsgId(2)
  /\ messages[4].content # <<>>
  /\ messages[2].content # <<>>

\* the contents the transcript msgs shows for the assistant message of r
ShownContents(msgs, r) ==
  [i \in 1..Len(SelectSeq(msgs, LAMBDA m : m.id = AsstMsgId(r))) |->
     SelectSeq(msgs, LAMBDA m : m.id = AsstMsgId(r))[i].content]

\* C33: while round r is streaming its assistant message is in the
\* transcript and shows every delta applied so far, whatever else happens
\* in the session (a change of conversation, a history load that
\* completes); once r is completed the content shown for its assistant
\* message no longer changes.
C33_RoundOwnsItsMessage ==
  [][\A r \in RoundIds :
       /\ rounds'[r].pc = "reading" =>
            ShownContents(messages', r) = << rounds'[r].assistantContent >>
       /\ rounds[r].pc = "completed" =>
            ShownContents(messages', r) = ShownContents(messages, r)]_vars

\* the values of the shapes both functions support
SupportedShapes == KnownShapes \cup CandidateShapes \cup ChoiceShapes

\* C34: for every value of the supported shapes extractText of the server
\* and collectText of the client return the same text.
C34_SameExtractor ==
  (call.arg \in SupportedShapes /\ call.out # <<>>) =>
    /\ call.fn = "extractText" => call.out[1] = collectText(call.arg)
    /\ call.fn = "collectText" => call.out[1] = Ret(extractText(call.arg))

\* the places a round is at before its user message is saved
BeforeUserSave == {"none", "readImage", "readCsv", "fetchCsv"}

\* round r hands the row to the messages table in this step
Inserts(r, row) ==
  \/ /\ row.role = "user"
     /\ rounds[r].pc = "saveUser"
     /\ rounds'[r].pc = "fetchChat"
     /\ rounds[r].conv # 0
     /\ row.conversation_id = rounds[r].conv
     /\ row.content = rounds[r].content
  \/ /\ row.role = "assistant"
     /\ rounds[r].pc = "saveAssistant"
     /\ rounds'[r].pc = "completed"
     /\ rounds[r].conv # 0
     /\ row.id = AsstMsgId(r)
     /\ row.content = rounds[r].assistantContent

\* C37: the messages table gets a row only from a round that saves its
\* user message, which it does at most once, in a conversation, and before
\* the request to the chat endpoint, or from a round that saves its
\* assistant message, which it does at most once and after its stream has
\* ended; a failed round has no assistant row, whatever the transcript
\* shows of its content.
C37_OneRecordEach ==
  /\ [][/\ db' # db =>
            /\ Len(db') = Len(db) + 1
            /\ SubSeq(db', 1, Len(db)) = db
            /\ \E r \in RoundIds : Inserts(r, db'[Len(db')])
        /\ \A r \in RoundIds :
             /\ rounds'[r].pc = "saveUser" => rounds[r].pc \in BeforeUserSave \cup {"saveUser"}
             /\ rounds'[r].pc = "saveAssistant" => rounds[r].pc \in {"reading", "saveAssistant"}]_vars
  /\ [](\A r \in RoundIds :
          /\ Len(AssistantRows(db, r)) <= 1
          /\ rounds[r].pc = "saveUser" => rounds[r].request = <<>>
          /\ rounds[r].pc = "failed" => AssistantRows(db, r) = <<>>)

\* a round in a conversation has failed after its user message was saved
\* and part of its content was put into the transcript
C37_FailedWithPartialContent ==
  \E r \in RoundIds :
    /\ rounds[r].pc = "failed"
    /\ rounds[r].conv # 0
    /\ rounds[r].assistantContent # <<>>
    /\ \E i \in 1..Len(db) : db[i].role = "user" /\ db[i].content = rounds[r].content
    /\ \E i \in 1..Len(messages) :
         messages[i].id = AsstMsgId(r) /\ messages[i].content = rounds[r].assistantContent

\* the role and the content of each message of a transcript
RoleContent(msgs) ==
  [i \in 1..Len(msgs) |-> [role |-> msgs[i].role, content |-> msgs[i].content]]

\* round r starts in this step
Starts(r) == rounds[r].pc = "none" /\ rounds'[r].pc # "none"

\* the messages of the request of round r
RequestMessages(r) == rounds[r].request[1].messages

\* the request of round r holds, after the user message of the completed
\* round q that the transcript showed when r began, the final content of
\* the assistant message of q
IncludesRound(r, q) ==
  \A i \in 1..Len(rounds[r].snapshot) :
    rounds[r].snapshot[i].id = UserMsgId(q) =>
      /\ RequestMessages(r)[i] = [role |-> "user", content |-> rounds[q].content]
      /\ RequestMessages(r)[i + 1] =
           [role |-> "assistant", content |-> rounds[q].assistantContent]

\* C38: the messages of the request of a round are the roles and contents
\* of the transcript as it was when the round began, in order, and then
\* the new user message; the assistant message of the round is not among
\* them; the request of the round after a completed round whose messages
\* the transcript showed holds that round's user message and the final
\* content of its assistant message.
C38_RequestIsTranscriptThenUser ==
  /\ [][\A r \in RoundIds : Starts(r) => rounds'[r].snapshot = messages]_vars
  /\ [](\A r \in RoundIds :
          rounds[r].request # <<>> =>
            /\ RequestMessages(r) =
                 RoleContent(rounds[r].snapshot)
                 \o << [role |-> "user", content |-> rounds[r].content] >>
            /\ \A i \in 1..Len(rounds[r].snapshot) :
                 rounds[r].snapshot[i].id # AsstMsgId(r)
            /\ \A q \in RoundIds :
                 (q < r /\ rounds[q].pc = "completed") => IncludesRound(r, q))

\* the image URIs of the request to the provider
ImageUris(parts) ==
  SelectSeq([i \in 1..Len(parts) |-> parts[i].imageUri], LAMBDA u : u # <<>>)

\* C20: once the upload of the image of the request has settled, the
\* request to the provider carries one image, with the public URL of the
\* stored object if the upload succeeded and with the data URL of the
\* request if it failed.
C20_DurableUrlForwarded ==
  (RequestImage # <<>> /\ srv.effectiveImageUrl # <<>>) =>
     ImageUris(srv.parts) = << srv.effectiveImageUrl >>

\* C21: however the upload of the image ends, the handler goes on to the
\* fetch of the provider and has returned no response; after an upload that
\* failed the image it settled on is the one of the request.
C21_UploadFailureGoesOn ==
  [][srv.pc = "upload" =>
       /\ srv'.pc \in {"upload", "fetch"}
       /\ srv'.resp = NoResp
       /\ srv'.pc = "fetch" =>
            /\ srv'.upload \in Uploads
            /\ srv'.upload # "stored" => srv'.effectiveImageUrl = RequestImage]_vars

\* the provider has answered a request whose image atob could not decode
C21_ProviderCalledAfterBadBase64 ==
  /\ srv.upload = "badBase64"
  /\ srv.effectiveImageUrl = DataUrl
  /\ srv.status = 200
  /\ srv.resp.kind = "stream"

\* the contents the items of call.arg are to give, in order
ItemContents == [i \in 1..Len(call.arg.items) |-> call.arg.items[i].content]

\* C24: the chat function gives for every line of the body one content, in
\* order: the sanitized line where the line is no JSON; the client gives
\* for every event one delta, in order: the payload itself where it is no
\* JSON or its extraction throws.  The fragments after a malformed one are
\* processed.
C24_MalformedFragmentPassed ==
  (call.fn \in {"reframe", "read"} /\ call.out # <<>>) => call.out[1] = ItemContents

\* the chat function has reframed a JSON line cut short followed by a
\* JSON line
C24_BadLineThenGoodLine ==
  /\ call.fn = "reframe"
  /\ Len(call.arg.items) = 2
  /\ call.arg.items[1].text = SubSeq(JsonStringify(ContentDoc(Hi)), 1, 10)
  /\ call.arg.items[2].content = Hel
  /\ call.out = << << call.arg.items[1].text, Hel >> >>

\* what the data lines of the event contribute, in order
DataContents ==
  [i \in 1..Len(SelectSeq(call.arg.items, LAMBDA l : l.data)) |->
     SelectSeq(call.arg.items, LAMBDA l : l.data)[i].content]

\* the delta of an event with the payload p that is no JSON
PlainDelta(p) == IF p = <<>> \/ p = DoneText THEN <<>> ELSE p

\* C29 (as stated): of an event the client takes the trimmed lines that
\* start with data:, strips the prefix and one whitespace after it, and the
\* payload is these joined with one newline; the other lines contribute
\* nothing and an event without data: line gives no delta.
C29_PayloadIsJoinedDataLines ==
  (call.fn = "event" /\ call.out # <<>>) =>
    call.out[1] = PlainDelta(JoinWith(DataContents, << NL >>))

\* C29 (amended): of an event the client takes the trimmed lines that
\* start with data:, strips the prefix and one whitespace after it, joins
\* these with one newline, and the payload is the join trimmed; the other
\* lines contribute nothing and an event without data: line gives no delta.
C29_PayloadIsTrimmedJoin ==
  (call.fn = "event" /\ call.out # <<>>) =>
    call.out[1] = PlainDelta(Trim(JoinWith(DataContents, << NL >>)))

\* the client has taken an event of two data lines around a line without
\* the prefix, the second with two spaces after the prefix
C29_TwoDataLinesTaken ==
  /\ call.fn = "event"
  /\ Len(call.arg.items) = 3
  /\ call.arg.items[1].content = Hi
  /\ ~call.arg.items[2].data
  /\ call.arg.items[3].content = << SP, "x" >>
  /\ call.out = << Hi \o << NL, SP, "x" >> >>

\* the elements of a whole document: those of the array, or the one value
Elements(json) == IF IsArray(json) THEN json.a ELSE << json >>

\* extract, then sanitize
ExtractSanitize(v) ==
  The({ sanitizeText(t) : t \in { Trim(e) : e \in { extractText(v) } } })

\* C25: for a whole document the function has put into events, in order,
\* the results of extract-then-sanitize of the elements that are not empty,
\* one event each, and then the one [DONE] event; no event has an empty
\* content.
C25_WholeDocumentEvents ==
  (srv.pc = "ended" /\ srv.json # Undefined) =>
     /\ srv.contents =
          NonEmpty([i \in 1..Len(Elements(srv.json)) |-> ExtractSanitize(Elements(srv.json)[i])])
     /\ wire[1].all = Events(srv.contents) \o DoneEvent

\* the chunk a step of the read loop has taken off the provider's body
ChunkRead == SubSeq(srv.up, 1, Len(srv.up) - Len(srv'.up))

\* the result for one upstream line: nothing for a blank line
LineResult(raw) ==
  The({ IF line = <<>> THEN <<>> ELSE Reframed(line, line) : line \in { Trim(raw) } })

\* the results of the lines that are not empty, in the order of the lines
LineResults(lines) == NonEmpty([i \in 1..Len(lines) |-> LineResult(lines[i])])

\* C26: in streamed mode every read puts into events, in the order of the
\* lines, one content for each complete line whose result is not empty;
\* the end of the body puts in at most one content, for the fragment left,
\* and then [DONE]; before that the body has no [DONE] and holds exactly
\* the events of the contents.
C26_StreamedModeEvents ==
  [][srv.pc = "read" =>
       /\ wire[1].all = Events(srv.contents)
       /\ \A i \in 1..Len(srv.contents) : srv.contents[i] # <<>>
       /\ (srv'.pc = "read" /\ srv' # srv) =>
            \E lines \in { SplitLines(srv.buffer \o ChunkRead) } :
              \E new \in { LineResults(SubSeq(lines, 1, Len(lines) - 1)) } :
                /\ srv'.buffer = lines[Len(lines)]
                /\ srv'.contents = srv.contents \o new
                /\ wire'[1].all = wire[1].all \o Events(new)
       /\ (srv'.pc = "ended" /\ wire'[1].end = "closed") =>
            \E new \in { NonEmpty(<< LineResult(srv.buffer) >>) } :
              /\ srv.up = <<>>
              /\ srv'.contents = srv.contents \o new
              /\ wire'[1].all = wire[1].all \o Events(new) \o DoneEvent]_vars

\* the text of the provider's body read so far
UpstreamConsumed == SubSeq(call.arg, 1, Len(call.arg) - Len(srv.up))

\* C35: however the provider's body is cut into chunks, the function has
\* after every read put into events what it puts in when the text read so
\* far arrives as one chunk, and keeps the same text in its buffer; when
\* the body has ended the events are those of the whole body in one chunk.
C35_UpstreamChunkingIndependence ==
  call.fn = "upstream" =>
    /\ srv.pc = "read" =>
         \E lines \in { SplitLines(UpstreamConsumed) } :
           /\ srv.buffer = lines[Len(lines)]
           /\ srv.contents = LineContents(SubSeq(lines, 1, Len(lines) - 1))
           /\ wire[1].all = Events(srv.contents)
    /\ (srv.pc = "ended" /\ wire[1].end = "closed") =>
         /\ srv.contents = BodyContents(call.arg)
         /\ wire[1].all = Events(BodyContents(call.arg)) \o DoneEvent

\* a chunk has ended between the \r and the \n of a line break: the \r is
\* in the buffer and the \n is the next character of the body
C35_CutInsideLineBreak ==
  /\ call.fn = "upstream"
  /\ srv.pc = "read"
  /\ srv.buffer # <<>>
  /\ srv.buffer[Len(srv.buffer)] = CR
  /\ srv.up # <<>>
  /\ srv.up[1] = NL

\* the places of the text t where a [DONE] event begins
DonePlaces(t) == { i \in 1..Len(t) : StartsWith(From(t, i), DoneEvent) }

\* C36: the stream of the function holds at most one [DONE] event, and
\* then as its last event; once the stream is closed or errored nothing
\* is enqueued and its end does not change again.
C36_DoneOnceAndLast ==
  /\ [](Cardinality(DonePlaces(wire[1].all)) <= 1)
  /\ [](DonePlaces(wire[1].all) # {} =>
          /\ EndsWith(wire[1].all, DoneEvent)
          /\ wire[1].end = "closed")
  /\ [][(srv.resp.kind = "stream" /\ wire[1].end \in {"closed", "errored"}) =>
          /\ wire'[1].all = wire[1].all
          /\ wire'[1].end = wire[1].end]_vars

\* the function has streamed two events, flushed a third and closed the
\* stream after the [DONE] event
C36_ClosedAfterThreeEvents ==
  /\ srv.pc = "ended"
  /\ srv.json = Undefined
  /\ wire[1].end = "closed"
  /\ Len(srv.contents) = 2
  /\ srv.buffer # <<>>
  /\ EndsWith(wire[1].all, DoneEvent)

\* the function has streamed a body with a line whose result is empty, a
\* blank line and a last line without line break: one content
C26_OnlyTheFragmentEmitted ==
  /\ srv.pc = "ended"
  /\ srv.json = Undefined
  /\ srv.contents = << Hi >>
  /\ wire[1].all = CanonicalEvent(Hi) \o DoneEvent

====
